---- MODULE Spec2Model ----
(***************************************************************************)
(* clira: a terminal issue tracker.  The model covers the Entity Store     *)
(* (src/src/db.rs, JiraDatabase over a Database backend), the data model   *)
(* (src/src/models.rs) and the Navigator (src/src/ui/navigator.rs).        *)
(*                                                                         *)
(* Option<T> is modelled as a sequence: <<>> is None, <<x>> is Some(x).    *)
(* HashMap<u32, T> is modelled as a function whose domain is the key set.  *)
(* Vec<u32> is modelled as a sequence.                                     *)
(* The storage backend is the reliable one (MockDatabase: read and write   *)
(* always return Ok), so Result is "Ok" or "NotFound".                     *)
(***************************************************************************)
EXTENDS Integers, Sequences, FiniteSets, TLC

VARIABLES
    state,   \* the persisted DatabaseState (what Database::read returns)
    pages,   \* Navigator.pages, the page stack, bottom first
    last,    \* observation: the last operation called, its arguments and its result
    issued   \* observation: the ids returned by the successful creates, in call order

vars == <<state, pages, last, issued>>

\* ids are u32; under Spec the creates are called while the next id is <= MaxId
MaxId == 3

\* under StoreSpec and UiSpec the creates are called while the next id is <= MaxSmallId
MaxSmallId == 1

\* under NavSpec pages are pushed while the stack holds fewer than MaxDepth
MaxDepth == 2

\* the largest id JiraDatabase issues under RollupSpec
MaxRollupId == 2

\* under BrowseSpec ids are issued up to MaxBrowseId
MaxBrowseId == 3

\* under RaceSpec MaxInstances instances of JiraDatabase share the file
MaxInstances == 2

\* under RaceSpec a create starts only while fewer than MaxCreates creates have
\* returned Ok
MaxCreates == 4

\* the ids a caller passes: every id a create can issue
ArgIds(cap) == 0..cap

None == <<>>

Some(x) == <<x>>

\* models.rs Status
Status == {"Open", "InProgress", "Resolved", "Closed"}

\* the strings a caller passes as a name / as a description
Names == {"n0", "n1"}

Descriptions == {"d0", "d1"}

\* the description a caller gives to a new epic or story
NewDescriptions == {"d0"}

\* HashMap::new()
EmptyMap == [i \in {} |-> 0]

\* HashMap::insert(k, v)
Insert(m, k, v) == [i \in (DOMAIN m) \cup {k} |-> IF i = k THEN v ELSE m[i]]

\* HashMap::remove(k)
Remove(m, k) == [i \in (DOMAIN m) \ {k} |-> m[i]]

\* Vec::push
Push(v, x) == Append(v, x)

\* Vec::swap_remove(idx) in place of Vec::remove(idx): the last element fills the hole
VecSwapRemove(v, idx) ==
    [i \in 1..(Len(v) - 1) |-> IF i = idx THEN v[Len(v)] ELSE v[i]]

\* Vec::remove(idx), idx 1-based here: the elements after idx shift left
VecRemove(v, idx) == [i \in 1..(Len(v) - 1) |-> IF i < idx THEN v[i] ELSE v[i + 1]]

\* Vec::contains
Contains(v, x) == \E i \in 1..Len(v) : v[i] = x

\* iter().enumerate().find(|(_, id)| id == x): the first index holding x, 0 if none
FindIdx(v, x) ==
    IF Contains(v, x)
    THEN CHOOSE i \in 1..Len(v) : v[i] = x /\ \A j \in 1..(i - 1) : v[j] # x
    ELSE 0

\* Epic::new(name, description)
NewEpic(name, description) ==
    [name |-> name, description |-> description, status |-> "Open", story_ids |-> <<>>]

\* Story::new(name, description)
NewStory(name, description) ==
    [name |-> name, description |-> description, status |-> "Open"]

\* the empty DatabaseState of MockDatabase::new / JiraDatabase::new
EmptyState == [last_item_id |-> None, epics |-> EmptyMap, stories |-> EmptyMap]

\* NextId as if the id were the number of entities currently stored
NextId_count(st) == Cardinality(DOMAIN st.epics) + Cardinality(DOMAIN st.stories)

\* the id both creates allocate: prev_id + 1 if Some(prev_id), else 0
NextId(st) == IF st.last_item_id # None THEN st.last_item_id[1] + 1 ELSE 0

Ok(st, ret) == [res |-> "Ok", ret |-> ret, state |-> st]

\* an early return through `?` or bail!: nothing was written
NotFound(st) == [res |-> "NotFound", ret |-> None, state |-> st]

\* create_epic as if the first id were 1
create_epic_from_one(st, epic) ==
    LET id == IF st.last_item_id # None THEN st.last_item_id[1] + 1 ELSE 1
    IN  Ok([st EXCEPT !.last_item_id = Some(id),
                      !.epics = Insert(st.epics, id, epic)], Some(id))

\* JiraDatabase::create_epic
create_epic(st, epic) ==
    LET id == NextId(st)
    IN  Ok([st EXCEPT !.last_item_id = Some(id),
                      !.epics = Insert(st.epics, id, epic)], Some(id))

\* create_story as if last_item_id were written before the epic is looked up
create_story_burn(st, story, epic_id) ==
    LET id == NextId(st)
    IN  IF epic_id \notin DOMAIN st.epics
        THEN NotFound([st EXCEPT !.last_item_id = Some(id)])
        ELSE LET epic == [st.epics[epic_id] EXCEPT
                             !.story_ids = Push(st.epics[epic_id].story_ids, id)]
             IN  Ok([last_item_id |-> Some(id),
                     epics |-> Insert(st.epics, epic_id, epic),
                     stories |-> Insert(st.stories, id, story)], Some(id))

\* create_story as if the new id were not pushed to the parent's story_ids
create_story_no_push(st, story, epic_id) ==
    LET id == NextId(st)
    IN  IF epic_id \notin DOMAIN st.epics
        THEN NotFound(st)
        ELSE Ok([last_item_id |-> Some(id),
                 epics |-> st.epics,
                 stories |-> Insert(st.stories, id, story)], Some(id))

\* create_story as if last_item_id were not updated
create_story_stale(st, story, epic_id) ==
    LET id == NextId(st)
    IN  IF epic_id \notin DOMAIN st.epics
        THEN NotFound(st)
        ELSE LET epic == [st.epics[epic_id] EXCEPT
                             !.story_ids = Push(st.epics[epic_id].story_ids, id)]
             IN  Ok([last_item_id |-> st.last_item_id,
                     epics |-> Insert(st.epics, epic_id, epic),
                     stories |-> Insert(st.stories, id, story)], Some(id))

\* JiraDatabase::create_story
create_story(st, story, epic_id) ==
    LET id == NextId(st)
    IN  IF epic_id \notin DOMAIN st.epics
        THEN NotFound(st)
        ELSE LET epic == [st.epics[epic_id] EXCEPT
                             !.story_ids = Push(st.epics[epic_id].story_ids, id)]
             IN  Ok([last_item_id |-> Some(id),
                     epics |-> Insert(st.epics, epic_id, epic),
                     stories |-> Insert(st.stories, id, story)], Some(id))

\* delete_epic as if it cascaded to the stories the epic lists
delete_epic_cascade(st, id) ==
    IF id \notin DOMAIN st.epics
    THEN NotFound(st)
    ELSE Ok([st EXCEPT !.epics = Remove(st.epics, id),
                       !.stories = [k \in {k \in DOMAIN st.stories :
                                               ~Contains(st.epics[id].story_ids, k)}
                                        |-> st.stories[k]]], None)

\* JiraDatabase::delete_epic
delete_epic(st, id) ==
    IF id \notin DOMAIN st.epics
    THEN NotFound(st)
    ELSE Ok([st EXCEPT !.epics = Remove(st.epics, id)], None)

\* delete_story as if the story were looked up in the story mapping, not in the epic's list
delete_story_by_map(st, story_id, epic_id) ==
    IF epic_id \notin DOMAIN st.epics \/ story_id \notin DOMAIN st.stories
    THEN NotFound(st)
    ELSE LET epic == [st.epics[epic_id] EXCEPT
                         !.story_ids = SelectSeq(st.epics[epic_id].story_ids,
                                                 LAMBDA x : x # story_id)]
         IN  Ok([st EXCEPT !.epics = Insert(st.epics, epic_id, epic),
                           !.stories = Remove(st.stories, story_id)], None)

\* delete_story as if the epic's list were left as it was
delete_story_keep_ref(st, story_id, epic_id) ==
    IF epic_id \notin DOMAIN st.epics
    THEN NotFound(st)
    ELSE IF FindIdx(st.epics[epic_id].story_ids, story_id) = 0
         THEN NotFound(st)
         ELSE Ok([st EXCEPT !.stories = Remove(st.stories, story_id)], None)

\* JiraDatabase::delete_story
delete_story(st, story_id, epic_id) ==
    IF epic_id \notin DOMAIN st.epics
    THEN NotFound(st)
    ELSE LET idx == FindIdx(st.epics[epic_id].story_ids, story_id)
         IN  IF idx = 0
             THEN NotFound(st)
             ELSE LET epic == [st.epics[epic_id] EXCEPT
                                  !.story_ids = VecRemove(st.epics[epic_id].story_ids, idx)]
                  IN  Ok([st EXCEPT !.epics = Insert(st.epics, epic_id, epic),
                                    !.stories = Remove(st.stories, story_id)], None)

\* update_epic_name as it must not be: the epic is rebuilt from the new name, so its
\* status and its story-id list are reset
update_epic_name_rebuild(st, id, name) ==
    IF id \in DOMAIN st.epics
    THEN Ok([st EXCEPT !.epics = Insert(st.epics, id, NewEpic(name, st.epics[id].description))],
            None)
    ELSE NotFound(st)

\* JiraDatabase::update_epic_name
update_epic_name(st, id, name) ==
    IF id \in DOMAIN st.epics
    THEN Ok([st EXCEPT !.epics = Insert(st.epics, id, [st.epics[id] EXCEPT !.name = name])], None)
    ELSE NotFound(st)

\* JiraDatabase::update_epic_description
update_epic_description(st, id, description) ==
    IF id \in DOMAIN st.epics
    THEN Ok([st EXCEPT !.epics =
                 Insert(st.epics, id, [st.epics[id] EXCEPT !.description = description])], None)
    ELSE NotFound(st)

\* JiraDatabase::update_epic_status
update_epic_status(st, id, status) ==
    IF id \notin DOMAIN st.epics
    THEN NotFound(st)
    ELSE Ok([st EXCEPT !.epics = Insert(st.epics, id, [st.epics[id] EXCEPT !.status = status])], None)

\* JiraDatabase::update_story_name
update_story_name(st, id, name) ==
    IF id \in DOMAIN st.stories
    THEN Ok([st EXCEPT !.stories = Insert(st.stories, id, [st.stories[id] EXCEPT !.name = name])], None)
    ELSE NotFound(st)

\* update_story_description as it must not be: an id that is not a story is accepted
\* and nothing is written
update_story_description_lenient(st, id, description) ==
    IF id \in DOMAIN st.stories
    THEN Ok([st EXCEPT !.stories =
                 Insert(st.stories, id, [st.stories[id] EXCEPT !.description = description])], None)
    ELSE Ok(st, None)

\* JiraDatabase::update_story_description
update_story_description(st, id, description) ==
    IF id \in DOMAIN st.stories
    THEN Ok([st EXCEPT !.stories =
                 Insert(st.stories, id, [st.stories[id] EXCEPT !.description = description])], None)
    ELSE NotFound(st)

\* JiraDatabase::update_story_status
update_story_status(st, id, status) ==
    IF id \notin DOMAIN st.stories
    THEN NotFound(st)
    ELSE Ok([st EXCEPT !.stories =
                 Insert(st.stories, id, [st.stories[id] EXCEPT !.status = status])], None)

\* the record kept in `last`: the operation, its id arguments, its result, and
\* the value argument (the entity or the field value) of a call that returned Ok
Call(op, epic_id, story_id, val, r) ==
    [op |-> op, epic_id |-> epic_id, story_id |-> story_id,
     val |-> IF r.res = "Ok" THEN val ELSE None,
     res |-> r.res, ret |-> r.ret]

Home == [kind |-> "Home"]

\* MockDatabase::new and Navigator::new
Init ==
    /\ state = EmptyState
    /\ pages = <<Home>>
    /\ last = [op |-> "new", epic_id |-> None, story_id |-> None, val |-> None,
               res |-> "Ok", ret |-> None]
    /\ issued = <<>>

\* a caller calls create_epic with a fresh Epic
CreateEpic(cap) ==
    \E n \in Names, d \in NewDescriptions :
        LET r == create_epic(state, NewEpic(n, d))
        IN  /\ NextId(state) <= cap
            /\ state' = r.state
            /\ last' = Call("create_epic", None, None, Some(NewEpic(n, d)), r)
            /\ issued' = IF r.res = "Ok" THEN Append(issued, r.ret[1]) ELSE issued
            /\ UNCHANGED pages

\* a caller calls create_story with a fresh Story and any epic id
CreateStory(cap) ==
    \E n \in Names, d \in NewDescriptions, e \in ArgIds(cap) :
        LET r == create_story(state, NewStory(n, d), e)
        IN  /\ NextId(state) <= cap
            /\ state' = r.state
            /\ last' = Call("create_story", Some(e), None, Some(NewStory(n, d)), r)
            /\ issued' = IF r.res = "Ok" THEN Append(issued, r.ret[1]) ELSE issued
            /\ UNCHANGED pages

\* a caller calls delete_epic with any id
DeleteEpic(cap) ==
    \E e \in ArgIds(cap) :
        LET r == delete_epic(state, e)
        IN  /\ state' = r.state
            /\ last' = Call("delete_epic", Some(e), None, None, r)
            /\ UNCHANGED <<pages, issued>>

\* a caller calls delete_story with any pair of ids
DeleteStory(cap) ==
    \E s \in ArgIds(cap), e \in ArgIds(cap) :
        LET r == delete_story(state, s, e)
        IN  /\ state' = r.state
            /\ last' = Call("delete_story", Some(e), Some(s), None, r)
            /\ UNCHANGED <<pages, issued>>

\* a caller calls one of the three epic updates with any id and value
UpdateEpic(cap) ==
    \E e \in ArgIds(cap) :
        \/ \E v \in Names :
             LET r == update_epic_name(state, e, v)
             IN  /\ state' = r.state
                 /\ last' = Call("update_epic_name", Some(e), None, Some(v), r)
                 /\ UNCHANGED <<pages, issued>>
        \/ \E v \in Descriptions :
             LET r == update_epic_description(state, e, v)
             IN  /\ state' = r.state
                 /\ last' = Call("update_epic_description", Some(e), None, Some(v), r)
                 /\ UNCHANGED <<pages, issued>>
        \/ \E v \in Status :
             LET r == update_epic_status(state, e, v)
             IN  /\ state' = r.state
                 /\ last' = Call("update_epic_status", Some(e), None, Some(v), r)
                 /\ UNCHANGED <<pages, issued>>

\* a caller calls one of the three story updates with any id and value
UpdateStory(cap) ==
    \E s \in ArgIds(cap) :
        \/ \E v \in Names :
             LET r == update_story_name(state, s, v)
             IN  /\ state' = r.state
                 /\ last' = Call("update_story_name", None, Some(s), Some(v), r)
                 /\ UNCHANGED <<pages, issued>>
        \/ \E v \in Descriptions :
             LET r == update_story_description(state, s, v)
             IN  /\ state' = r.state
                 /\ last' = Call("update_story_description", None, Some(s), Some(v), r)
                 /\ UNCHANGED <<pages, issued>>
        \/ \E v \in Status :
             LET r == update_story_status(state, s, v)
             IN  /\ state' = r.state
                 /\ last' = Call("update_story_status", None, Some(s), Some(v), r)
                 /\ UNCHANGED <<pages, issued>>

\* the creates and deletes of the Entity Store, called in any order
Next ==
    \/ CreateEpic(MaxId)
    \/ CreateStory(MaxId)
    \/ DeleteEpic(MaxId)
    \/ DeleteStory(MaxId)

Spec == Init /\ [][Next]_vars

\* every Entity Store operation, called in any order
StoreNext ==
    \/ CreateEpic(MaxSmallId)
    \/ CreateStory(MaxSmallId)
    \/ DeleteEpic(MaxSmallId)
    \/ DeleteStory(MaxSmallId)
    \/ UpdateEpic(MaxSmallId)
    \/ UpdateStory(MaxSmallId)

StoreSpec == Init /\ [][StoreNext]_vars

(***************************************************************************)
(* The Navigator and the pages (src/src/ui), driven by the loop of main    *)
(***************************************************************************)

\* HomePage is Home; the detail pages carry the ids they were built with
EpicDetail(epic_id) == [kind |-> "EpicDetail", epic_id |-> Some(epic_id), story_id |-> None]

StoryDetail(story_id, epic_id) ==
    [kind |-> "StoryDetail", epic_id |-> Some(epic_id), story_id |-> Some(story_id)]

\* models.rs Action (with the UpdateStoryName / UpdateStoryDescription variants the
\* Navigator matches on): the variant and its payload
Action(type, epic_id, story_id) == [type |-> type, epic_id |-> epic_id, story_id |-> story_id]

\* a line of input is a sequence of characters, already trimmed by read_input
Digits == <<"0", "1", "2", "3", "4", "5", "6", "7", "8", "9">>

DigitVal(c) == (CHOOSE i \in 1..10 : Digits[i] = c) - 1

IsDigit(c) == \E i \in 1..10 : Digits[i] = c

\* the decimal digits of u32::MAX, 4294967295
U32MaxDigits == <<"4", "2", "9", "4", "9", "6", "7", "2", "9", "5">>

\* a digit string without its leading zeros
RECURSIVE StripZeros(_)
StripZeros(ds) == IF ds # <<>> /\ Head(ds) = "0" THEN StripZeros(Tail(ds)) ELSE ds

\* whether a digit string denotes a number above u32::MAX
Overflows(ds) ==
    LET s == StripZeros(ds)
    IN  \/ Len(s) > Len(U32MaxDigits)
        \/ /\ Len(s) = Len(U32MaxDigits)
           /\ \E i \in 1..Len(s) :
                  /\ DigitVal(s[i]) > DigitVal(U32MaxDigits[i])
                  /\ \A j \in 1..(i - 1) : s[j] = U32MaxDigits[j]

\* the value of a digit string, digit by digit
RECURSIVE DigitsValue(_, _)
DigitsValue(ds, acc) ==
    IF ds = <<>> THEN acc ELSE DigitsValue(Tail(ds), acc * 10 + DigitVal(Head(ds)))

\* str::parse::<u32>: an optional leading "+", then one or more decimal digits, no
\* overflow; Some(value), or None for Err
ParseU32(line) ==
    LET ds == IF line # <<>> /\ Head(line) = "+" THEN Tail(line) ELSE line
    IN  IF ds = <<>> \/ (\E i \in 1..Len(ds) : ~IsDigit(ds[i])) \/ Overflows(ds)
        THEN None
        ELSE Some(DigitsValue(ds, 0))

\* u32::to_string for a one-digit id
Numeral(n) == <<Digits[n + 1]>>

\* pages::update_epic: the second line read chooses the field
update_epic(epic_id, field) ==
    IF field = <<"1">> THEN Some(Action("UpdateEpicName", Some(epic_id), None))
    ELSE IF field = <<"2">> THEN Some(Action("UpdateEpicDescription", Some(epic_id), None))
    ELSE IF field = <<"3">> THEN Some(Action("UpdateEpicStatus", Some(epic_id), None))
    ELSE None

\* pages::update_story
update_story(story_id, field) ==
    IF field = <<"1">> THEN Some(Action("UpdateStoryName", None, Some(story_id)))
    ELSE IF field = <<"2">> THEN Some(Action("UpdateStoryDescription", None, Some(story_id)))
    ELSE IF field = <<"3">> THEN Some(Action("UpdateStoryStatus", None, Some(story_id)))
    ELSE None

\* HomePage::action_from as it must not be: "b" is a key of the menu of Home
HomePage_action_from_back(st, input) ==
    IF input = <<"q">> THEN Some(Action("Exit", None, None))
    ELSE IF input = <<"b">> THEN Some(Action("NavigateToPreviousPage", None, None))
    ELSE IF input = <<"n">> THEN Some(Action("CreateEpic", None, None))
    ELSE LET parsed == ParseU32(input)
         IN  IF parsed # None /\ parsed[1] \in DOMAIN st.epics
             THEN Some(Action("NavigateToEpicDetail", parsed, None))
             ELSE None

\* HomePage::action_from as it must not be: the id is not looked up
HomePage_action_from_unchecked(st, input) ==
    IF input = <<"q">> THEN Some(Action("Exit", None, None))
    ELSE IF input = <<"n">> THEN Some(Action("CreateEpic", None, None))
    ELSE LET parsed == ParseU32(input)
         IN  IF parsed # None
             THEN Some(Action("NavigateToEpicDetail", parsed, None))
             ELSE None

\* HomePage::action_from
HomePage_action_from(st, input) ==
    IF input = <<"q">> THEN Some(Action("Exit", None, None))
    ELSE IF input = <<"n">> THEN Some(Action("CreateEpic", None, None))
    ELSE LET parsed == ParseU32(input)
         IN  IF parsed # None /\ parsed[1] \in DOMAIN st.epics
             THEN Some(Action("NavigateToEpicDetail", parsed, None))
             ELSE None

\* EpicDetail::action_from as it must not be: the id is looked up among the epics
EpicDetail_action_from_epic_keys(st, page, input, field) ==
    LET epic_id == page.epic_id[1]
    IN  IF input = <<"b">> THEN Some(Action("NavigateToPreviousPage", None, None))
        ELSE IF input = <<"u">> THEN update_epic(epic_id, field)
        ELSE IF input = <<"d">> THEN Some(Action("DeleteEpic", Some(epic_id), None))
        ELSE IF input = <<"n">> THEN Some(Action("CreateStory", Some(epic_id), None))
        ELSE LET parsed == ParseU32(input)
             IN  IF parsed # None /\ parsed[1] \in DOMAIN st.epics
                 THEN Some(Action("NavigateToStoryDetail", Some(epic_id), parsed))
                 ELSE None

\* EpicDetail::action_from
EpicDetail_action_from(st, page, input, field) ==
    LET epic_id == page.epic_id[1]
    IN  IF input = <<"b">> THEN Some(Action("NavigateToPreviousPage", None, None))
        ELSE IF input = <<"u">> THEN update_epic(epic_id, field)
        ELSE IF input = <<"d">> THEN Some(Action("DeleteEpic", Some(epic_id), None))
        ELSE IF input = <<"n">> THEN Some(Action("CreateStory", Some(epic_id), None))
        ELSE LET parsed == ParseU32(input)
             IN  IF parsed # None /\ parsed[1] \in DOMAIN st.stories
                 THEN Some(Action("NavigateToStoryDetail", Some(epic_id), parsed))
                 ELSE None

\* StoryDetail::action_from as it must not be: "b" is not a key of the menu
StoryDetail_action_from_no_back(page, input, field) ==
    IF input = <<"u">> THEN update_story(page.story_id[1], field)
    ELSE IF input = <<"d">> THEN Some(Action("DeleteStory", page.epic_id, page.story_id))
    ELSE None

\* StoryDetail::action_from
StoryDetail_action_from(page, input, field) ==
    IF input = <<"b">> THEN Some(Action("NavigateToPreviousPage", None, None))
    ELSE IF input = <<"u">> THEN update_story(page.story_id[1], field)
    ELSE IF input = <<"d">> THEN Some(Action("DeleteStory", page.epic_id, page.story_id))
    ELSE None

\* Page::action_from of the page on top of the stack
action_from(st, page, input, field) ==
    IF page.kind = "Home" THEN HomePage_action_from(st, input)
    ELSE IF page.kind = "EpicDetail" THEN EpicDetail_action_from(st, page, input, field)
    ELSE StoryDetail_action_from(page, input, field)

\* Navigator::current_page: the page on top of the stack, if any
current_page(pgs) == IF pgs = <<>> THEN None ELSE Some(pgs[Len(pgs)])

\* Vec::pop as it must not be: every page is dropped
Pop_clear(v) == <<>>

\* Vec::pop: nothing happens on an empty Vec
Pop(v) == IF v = <<>> THEN v ELSE SubSeq(v, 1, Len(v) - 1)

\* the statuses as they must not be: a listed id without a story counts as Open
ChildStatuses_missing_open(st, epic_id) ==
    LET ids == st.epics[epic_id].story_ids
    IN  [i \in 1..Len(ids) |->
            IF ids[i] \in DOMAIN st.stories THEN st.stories[ids[i]].status ELSE "Open"]

\* the statuses of the stories an epic lists that exist (filter_map over story_ids)
ChildStatuses(st, epic_id) ==
    LET ids == st.epics[epic_id].story_ids
    IN  [i \in {i \in 1..Len(ids) : ids[i] \in DOMAIN st.stories} |-> st.stories[ids[i]].status]

\* the rollup as it must not be: the Resolved rule is tried before the Closed rule
Rollup_resolved_first(statuses) ==
    IF DOMAIN statuses = {} THEN "Open"
    ELSE IF \A i \in DOMAIN statuses : statuses[i] \in {"Resolved", "Closed"} THEN "Resolved"
    ELSE IF \A i \in DOMAIN statuses : statuses[i] = "Closed" THEN "Closed"
    ELSE IF \A i \in DOMAIN statuses : statuses[i] = "Open" THEN "Open"
    ELSE "InProgress"

\* the status auto_update_epic_status computes from the stories found
Rollup(statuses) ==
    IF DOMAIN statuses = {} THEN "Open"
    ELSE IF \A i \in DOMAIN statuses : statuses[i] = "Closed" THEN "Closed"
    ELSE IF \A i \in DOMAIN statuses : statuses[i] \in {"Resolved", "Closed"} THEN "Resolved"
    ELSE IF \A i \in DOMAIN statuses : statuses[i] = "Open" THEN "Open"
    ELSE "InProgress"

\* the lookup as it must not be: the id of Feature::Story is looked up as an epic id
RollupTargets_by_key(st, feat) == {feat.id} \cap DOMAIN st.epics

\* the epics auto_update_epic_status may pick: the one named by Feature::Epic, or for
\* Feature::Story any epic the HashMap iteration finds first that lists the story
RollupTargets(st, feat) ==
    IF feat.kind = "Epic"
    THEN {feat.id} \cap DOMAIN st.epics
    ELSE {e \in DOMAIN st.epics : Contains(st.epics[e].story_ids, feat.id)}

\* the rollup as it must not be: the computed status is written to every epic
auto_update_epic_status_all(st, feat) ==
    IF RollupTargets(st, feat) = {}
    THEN {NotFound(st)}
    ELSE {Ok([st EXCEPT !.epics = [k \in DOMAIN st.epics |->
                                      [st.epics[k] EXCEPT !.status = Rollup(ChildStatuses(st, e))]]],
             None) : e \in RollupTargets(st, feat)}

\* Navigator::auto_update_epic_status: the set of its possible outcomes
auto_update_epic_status(st, feat) ==
    IF RollupTargets(st, feat) = {}
    THEN {NotFound(st)}
    ELSE {update_epic_status(st, e, Rollup(ChildStatuses(st, e))) : e \in RollupTargets(st, feat)}

\* what a dispatch leaves behind: its Result, the persisted state and the stack
Out(res, st, pgs) == [res |-> res, ret |-> None, state |-> st, pages |-> pgs]

\* a database call followed by `?` and nothing else
Through(r, pgs) == Out(r.res, r.state, pgs)

\* the CreateEpic arm of dispatch_action, the prompt returning Option<Epic> as
\* Prompt declares it: the epic is created if there is one
dispatch_CreateEpic(st, pgs, action, answer) ==
    IF answer # None
    THEN {Through(create_epic(st, answer[1]), pgs)}
    ELSE {Out("Ok", st, pgs)}

\* the CreateStory arm of dispatch_action, the prompt returning Option<Story>
dispatch_CreateStory(st, pgs, action, answer) ==
    IF answer # None
    THEN {Through(create_story(st, answer[1], action.epic_id[1]), pgs)}
    ELSE {Out("Ok", st, pgs)}

\* the NavigateToEpicDetail arm as it must not be: the epic is looked up first
dispatch_NavigateToEpicDetail_checked(st, pgs, action) ==
    IF action.epic_id[1] \in DOMAIN st.epics
    THEN {Out("Ok", st, Append(pgs, EpicDetail(action.epic_id[1])))}
    ELSE {Through(NotFound(st), pgs)}

\* the NavigateToEpicDetail arm as it must not be: the page replaces the stack
dispatch_NavigateToEpicDetail_replace(st, pgs, action) ==
    {Out("Ok", st, <<EpicDetail(action.epic_id[1])>>)}

\* the NavigateToEpicDetail arm of dispatch_action: the page is built and pushed
dispatch_NavigateToEpicDetail(st, pgs, action) ==
    {Out("Ok", st, Append(pgs, EpicDetail(action.epic_id[1])))}

\* the UpdateStoryStatus arm as it must not be: the epic's status is recomputed
\* before the story is written
dispatch_UpdateStoryStatus_rollup_first(st, pgs, action, answer) ==
    IF answer # None
    THEN UNION {LET r == update_story_status(a.state, action.story_id[1], answer[1])
                IN  IF a.res # "Ok" THEN {Through(a, pgs)} ELSE {Through(r, pgs)} :
                    a \in auto_update_epic_status(st, [kind |-> "Story",
                                                       id |-> action.story_id[1]])}
    ELSE {Out("Ok", st, pgs)}

\* the UpdateStoryStatus arm of dispatch_action: the prompt, the story write, then
\* the rollup of the owning epic; an error of the rollup leaves the story written
dispatch_UpdateStoryStatus(st, pgs, action, answer) ==
    IF answer # None
    THEN LET r == update_story_status(st, action.story_id[1], answer[1])
         IN  IF r.res # "Ok"
             THEN {Through(r, pgs)}
             ELSE {Through(a, pgs) :
                      a \in auto_update_epic_status(r.state, [kind |-> "Story",
                                                               id |-> action.story_id[1]])}
    ELSE {Out("Ok", st, pgs)}

\* the DeleteEpic arm as it must not be: the answer of the prompt is not looked at
dispatch_DeleteEpic_unconfirmed(st, pgs, action, answer) ==
    LET r == delete_epic(st, action.epic_id[1])
    IN  IF r.res # "Ok" THEN {Through(r, pgs)} ELSE {Out("Ok", r.state, Pop(pgs))}

\* the DeleteEpic arm as it must not be: the page is popped whatever delete_epic
\* returned
dispatch_DeleteEpic_pop_always(st, pgs, action, answer) ==
    IF answer
    THEN {Through(delete_epic(st, action.epic_id[1]), Pop(pgs))}
    ELSE {Out("Ok", st, pgs)}

\* the DeleteEpic arm as it must not be: the page of the deleted epic stays
dispatch_DeleteEpic_stay(st, pgs, action, answer) ==
    IF answer
    THEN {Through(delete_epic(st, action.epic_id[1]), pgs)}
    ELSE {Out("Ok", st, pgs)}

\* the DeleteEpic arm of dispatch_action: the prompt, the delete, then the pop
dispatch_DeleteEpic(st, pgs, action, answer) ==
    IF answer
    THEN LET r == delete_epic(st, action.epic_id[1])
         IN  IF r.res # "Ok" THEN {Through(r, pgs)} ELSE {Out("Ok", r.state, Pop(pgs))}
    ELSE {Out("Ok", st, pgs)}

\* the DeleteStory arm as it must not be: an error of delete_story is dropped
dispatch_DeleteStory_swallow(st, pgs, action, answer) ==
    IF answer
    THEN LET r == delete_story(st, action.story_id[1], action.epic_id[1])
         IN  IF r.res # "Ok"
             THEN {Out("Ok", st, pgs)}
             ELSE {IF a.res # "Ok" THEN Through(a, pgs) ELSE Out("Ok", a.state, Pop(pgs)) :
                      a \in auto_update_epic_status(r.state, [kind |-> "Epic",
                                                               id |-> action.epic_id[1]])}
    ELSE {Out("Ok", st, pgs)}

\* the DeleteStory arm as it must not be: the epic's status is not recomputed
dispatch_DeleteStory_no_rollup(st, pgs, action, answer) ==
    IF answer
    THEN LET r == delete_story(st, action.story_id[1], action.epic_id[1])
         IN  IF r.res # "Ok" THEN {Through(r, pgs)} ELSE {Out("Ok", r.state, Pop(pgs))}
    ELSE {Out("Ok", st, pgs)}

\* the DeleteStory arm of dispatch_action: the prompt, the delete, the rollup of
\* the named epic, then the pop
dispatch_DeleteStory(st, pgs, action, answer) ==
    IF answer
    THEN LET r == delete_story(st, action.story_id[1], action.epic_id[1])
         IN  IF r.res # "Ok"
             THEN {Through(r, pgs)}
             ELSE {IF a.res # "Ok" THEN Through(a, pgs) ELSE Out("Ok", a.state, Pop(pgs)) :
                      a \in auto_update_epic_status(r.state, [kind |-> "Epic",
                                                               id |-> action.epic_id[1]])}
    ELSE {Out("Ok", st, pgs)}

\* the Exit arm as it must not be: the stack is cut back to its bottom page
dispatch_Exit_to_bottom(st, pgs) == {Out("Ok", st, SubSeq(pgs, 1, 1))}

\* the Exit arm of dispatch_action: self.pages.clear()
dispatch_Exit(st, pgs) == {Out("Ok", st, <<>>)}

\* Navigator::dispatch_action: the set of its possible outcomes.  `answer` is what
\* the prompt of the arm returns: an Option<Epic>, an Option<Story>, a String, an
\* Option<Status> or a bool.
dispatch_action(st, pgs, action, answer) ==
    IF action.type = "NavigateToEpicDetail"
    THEN dispatch_NavigateToEpicDetail(st, pgs, action)
    ELSE IF action.type = "NavigateToStoryDetail"
    THEN {Out("Ok", st, Append(pgs, StoryDetail(action.story_id[1], action.epic_id[1])))}
    ELSE IF action.type = "NavigateToPreviousPage"
    THEN {Out("Ok", st, Pop(pgs))}
    ELSE IF action.type = "CreateEpic"
    THEN dispatch_CreateEpic(st, pgs, action, answer)
    ELSE IF action.type = "CreateStory"
    THEN dispatch_CreateStory(st, pgs, action, answer)
    ELSE IF action.type = "UpdateEpicName"
    THEN {Through(update_epic_name(st, action.epic_id[1], answer), pgs)}
    ELSE IF action.type = "UpdateEpicDescription"
    THEN {Through(update_epic_description(st, action.epic_id[1], answer), pgs)}
    ELSE IF action.type = "UpdateEpicStatus"
    THEN IF answer # None
         THEN {Through(update_epic_status(st, action.epic_id[1], answer[1]), pgs)}
         ELSE {Out("Ok", st, pgs)}
    ELSE IF action.type = "UpdateStoryName"
    THEN {Through(update_story_name(st, action.story_id[1], answer), pgs)}
    ELSE IF action.type = "UpdateStoryDescription"
    THEN {Through(update_story_description(st, action.story_id[1], answer), pgs)}
    ELSE IF action.type = "UpdateStoryStatus"
    THEN dispatch_UpdateStoryStatus(st, pgs, action, answer)
    ELSE IF action.type = "DeleteEpic"
    THEN dispatch_DeleteEpic(st, pgs, action, answer)
    ELSE IF action.type = "DeleteStory"
    THEN dispatch_DeleteStory(st, pgs, action, answer)
    ELSE dispatch_Exit(st, pgs)

\* the names and the descriptions the user types at the prompts
PromptNames == {"n0", "n1"}

PromptDescriptions == {"d0"}

\* what the prompt of an action's arm can return
Answers(action) ==
    IF action.type = "CreateEpic"
    THEN {None} \cup {Some(NewEpic(n, d)) : n \in PromptNames, d \in PromptDescriptions}
    ELSE IF action.type = "CreateStory"
    THEN {None} \cup {Some(NewStory(n, d)) : n \in PromptNames, d \in PromptDescriptions}
    ELSE IF action.type \in {"UpdateEpicName", "UpdateStoryName"} THEN PromptNames
    ELSE IF action.type \in {"UpdateEpicDescription", "UpdateStoryDescription"}
    THEN PromptDescriptions
    ELSE IF action.type \in {"UpdateEpicStatus", "UpdateStoryStatus"}
         THEN {None} \cup {Some(s) : s \in Status}
    ELSE IF action.type \in {"DeleteEpic", "DeleteStory"} THEN BOOLEAN
    ELSE {None}

\* the lines the user types: the menu keys, a line no menu knows, the ids, and an id
\* written with a sign
Lines(cap) ==
    {<<"q">>, <<"n">>, <<"b">>, <<"u">>, <<"d">>, <<"x">>}
        \cup {Numeral(i) : i \in ArgIds(cap)} \cup {<<"+", "0">>, <<"-", "0">>}

\* the lines the user types when asked which field to update
FieldLines == {<<"1">>, <<"2">>, <<"3">>, <<"x">>}

\* the prompt's answer means that the user cancelled: None from a create or a status
\* prompt, false from a delete prompt
Cancelled(action, answer) ==
    IF action.type \in {"DeleteEpic", "DeleteStory"} THEN answer = FALSE
    ELSE IF action.type \in {"CreateEpic", "CreateStory", "UpdateEpicStatus", "UpdateStoryStatus"}
    THEN answer = None
    ELSE FALSE

\* a call of dispatch_action(action) during which the prompt returns `answer`; the
\* answer of a cancelled prompt is recorded whatever the call returns
DispatchAnswered(action, answer) ==
    \E out \in dispatch_action(state, pages, action, answer) :
        /\ state' = out.state
        /\ pages' = out.pages
        /\ last' = IF Cancelled(action, answer)
                   THEN [Call(action.type, action.epic_id, action.story_id, Some(answer), out)
                            EXCEPT !.val = Some(answer)]
                   ELSE Call(action.type, action.epic_id, action.story_id, Some(answer), out)
        /\ issued' = IF /\ action.type \in {"CreateEpic", "CreateStory"}
                        /\ answer # None
                        /\ out.res = "Ok"
                     THEN Append(issued, NextId(state))
                     ELSE issued

\* one turn of the loop of main on a line that the current page maps to `action`
Dispatch(action) ==
    \E answer \in Answers(action) : DispatchAnswered(action, answer)

\* one turn of the loop of main: while there is a current page, read a line (and,
\* after "u", the line choosing the field) and ask the page for the action; here the
\* page returns Ok(None) and nothing is dispatched
NoAction(cap) ==
    /\ pages # <<>>
    /\ \/ \E input \in Lines(cap) \ {<<"u">>} :
              action_from(state, pages[Len(pages)], input, <<>>) = None
       \/ \E field \in FieldLines :
              action_from(state, pages[Len(pages)], <<"u">>, field) = None
    /\ last' = [op |-> "NoAction", epic_id |-> None, story_id |-> None,
                val |-> None, res |-> "Ok", ret |-> None]
    /\ UNCHANGED <<state, pages, issued>>

\* the actions of variant `type` that the current page returns for some line; the
\* line choosing the field is read only after "u"
Emitted(cap, type) ==
    IF pages = <<>>
    THEN {}
    ELSE LET page == pages[Len(pages)]
             got == {action_from(state, page, input, <<>>) : input \in Lines(cap) \ {<<"u">>}}
                        \cup {action_from(state, page, <<"u">>, field) : field \in FieldLines}
         IN  {a[1] : a \in {g \in got : g # None /\ g[1].type = type}}

\* one turn of the loop of main in which the page returns NavigateToEpicDetail, which is dispatched
TurnNavigateToEpicDetail == \E a \in Emitted(MaxSmallId, "NavigateToEpicDetail") : Dispatch(a)

\* one turn of the loop of main in which the page returns NavigateToStoryDetail, which is dispatched
TurnNavigateToStoryDetail == \E a \in Emitted(MaxSmallId, "NavigateToStoryDetail") : Dispatch(a)

\* one turn of the loop of main in which the page returns NavigateToPreviousPage, which is dispatched
TurnNavigateToPreviousPage == \E a \in Emitted(MaxSmallId, "NavigateToPreviousPage") : Dispatch(a)

\* one turn of the loop of main in which the page returns CreateEpic, which is dispatched
TurnCreateEpic == NextId(state) <= MaxSmallId /\ \E a \in Emitted(MaxSmallId, "CreateEpic") : Dispatch(a)

\* one turn of the loop of main in which the page returns CreateStory, which is dispatched
TurnCreateStory == NextId(state) <= MaxSmallId /\ \E a \in Emitted(MaxSmallId, "CreateStory") : Dispatch(a)

\* one turn of the loop of main in which the page returns UpdateEpicName, which is dispatched
TurnUpdateEpicName == \E a \in Emitted(MaxSmallId, "UpdateEpicName") : Dispatch(a)

\* one turn of the loop of main in which the page returns UpdateEpicDescription, which is dispatched
TurnUpdateEpicDescription == \E a \in Emitted(MaxSmallId, "UpdateEpicDescription") : Dispatch(a)

\* one turn of the loop of main in which the page returns UpdateEpicStatus, which is dispatched
TurnUpdateEpicStatus == \E a \in Emitted(MaxSmallId, "UpdateEpicStatus") : Dispatch(a)

\* one turn of the loop of main in which the page returns UpdateStoryName, which is dispatched
TurnUpdateStoryName == \E a \in Emitted(MaxSmallId, "UpdateStoryName") : Dispatch(a)

\* one turn of the loop of main in which the page returns UpdateStoryDescription, which is dispatched
TurnUpdateStoryDescription == \E a \in Emitted(MaxSmallId, "UpdateStoryDescription") : Dispatch(a)

\* one turn of the loop of main in which the page returns UpdateStoryStatus, which is dispatched
TurnUpdateStoryStatus == \E a \in Emitted(MaxSmallId, "UpdateStoryStatus") : Dispatch(a)

\* one turn of the loop of main in which the page returns DeleteEpic, which is dispatched
TurnDeleteEpic == \E a \in Emitted(MaxSmallId, "DeleteEpic") : Dispatch(a)

\* one turn of the loop of main in which the page returns DeleteStory, which is dispatched
TurnDeleteStory == \E a \in Emitted(MaxSmallId, "DeleteStory") : Dispatch(a)

\* one turn of the loop of main in which the page returns Exit, which is dispatched
TurnExit == \E a \in Emitted(MaxSmallId, "Exit") : Dispatch(a)

UiNext ==
    \/ NoAction(MaxSmallId)
    \/ TurnNavigateToEpicDetail
    \/ TurnNavigateToStoryDetail
    \/ TurnNavigateToPreviousPage
    \/ TurnCreateEpic
    \/ TurnCreateStory
    \/ TurnUpdateEpicName
    \/ TurnUpdateEpicDescription
    \/ TurnUpdateEpicStatus
    \/ TurnUpdateStoryName
    \/ TurnUpdateStoryDescription
    \/ TurnUpdateStoryStatus
    \/ TurnDeleteEpic
    \/ TurnDeleteStory
    \/ TurnExit

\* the program: JiraDatabase and Navigator as main builds them, then the loop
UiSpec == Init /\ [][UiNext]_vars

(***************************************************************************)
(* The Navigator called directly with any Action, as its tests call it     *)
(***************************************************************************)

\* the Epic and the Story the create prompts return in these calls
TestEpic == NewEpic("n0", "d0")

TestStory == NewStory("n0", "d0")

\* dispatch_action(CreateEpic)
DirectCreateEpic(cap) ==
    /\ NextId(state) <= cap
    /\ DispatchAnswered(Action("CreateEpic", None, None), Some(TestEpic))

\* dispatch_action(CreateStory { epic_id }) with any epic id
DirectCreateStory(cap) ==
    /\ NextId(state) <= cap
    /\ \E e \in ArgIds(cap) : DispatchAnswered(Action("CreateStory", Some(e), None), Some(TestStory))

\* dispatch_action(UpdateStoryStatus { story_id }) with any story id; the prompt
\* returns a status or None
DirectUpdateStoryStatus(cap) ==
    \E s \in ArgIds(cap) :
        \E answer \in {None} \cup {Some(st) : st \in Status} :
            DispatchAnswered(Action("UpdateStoryStatus", None, Some(s)), answer)

\* dispatch_action(DeleteStory { story_id, epic_id }) with any pair of ids; the
\* prompt returns true or false
DirectDeleteStory(cap) ==
    \E s \in ArgIds(cap), e \in ArgIds(cap) :
        \E answer \in BOOLEAN :
            DispatchAnswered(Action("DeleteStory", Some(e), Some(s)), answer)

\* dispatch_action(DeleteEpic { epic_id }) with any epic id; the prompt returns
\* true or false
DirectDeleteEpic(cap) ==
    \E e \in ArgIds(cap) :
        \E answer \in BOOLEAN :
            DispatchAnswered(Action("DeleteEpic", Some(e), None), answer)

\* the calls that create and delete stories and set their statuses, in any order
RollupNext ==
    \/ DirectCreateEpic(MaxRollupId)
    \/ DirectCreateStory(MaxRollupId)
    \/ DirectUpdateStoryStatus(MaxRollupId)
    \/ DirectDeleteStory(MaxRollupId)
    \/ DirectDeleteEpic(MaxRollupId)

RollupSpec == Init /\ [][RollupNext]_vars

\* the two values of Feature
Feature(kind, id) == [kind |-> kind, id |-> id]

\* self.auto_update_epic_status(feat) with any feature: `epic_id` records the id of
\* Feature::Epic, `story_id` the id of Feature::Story
DirectRollup(cap) ==
    \E kind \in {"Epic", "Story"}, id \in ArgIds(cap) :
        \E r \in auto_update_epic_status(state, Feature(kind, id)) :
            /\ state' = r.state
            /\ last' = [op |-> "auto_update_epic_status",
                        epic_id |-> IF kind = "Epic" THEN Some(id) ELSE None,
                        story_id |-> IF kind = "Story" THEN Some(id) ELSE None,
                        val |-> None, res |-> r.res, ret |-> None]
            /\ UNCHANGED <<pages, issued>>

\* the rollup called on every state the store calls of the Navigator produce
RollupCallNext ==
    \/ DirectCreateEpic(MaxRollupId)
    \/ DirectCreateStory(MaxRollupId)
    \/ DirectUpdateStoryStatus(MaxRollupId)
    \/ DirectDeleteStory(MaxRollupId)
    \/ DirectDeleteEpic(MaxRollupId)
    \/ DirectRollup(MaxRollupId)

RollupCallSpec == Init /\ [][RollupCallNext]_vars

\* dispatch_action(NavigateToEpicDetail { epic_id }) with any epic id
DirectNavigateToEpicDetail(cap) ==
    /\ Len(pages) < MaxDepth
    /\ \E e \in ArgIds(cap) :
           DispatchAnswered(Action("NavigateToEpicDetail", Some(e), None), None)

\* dispatch_action(NavigateToStoryDetail { story_id, epic_id }) with any pair of ids
DirectNavigateToStoryDetail(cap) ==
    /\ Len(pages) < MaxDepth
    /\ \E s \in ArgIds(cap), e \in ArgIds(cap) :
           DispatchAnswered(Action("NavigateToStoryDetail", Some(e), Some(s)), None)

\* dispatch_action(NavigateToPreviousPage)
DirectNavigateToPreviousPage ==
    DispatchAnswered(Action("NavigateToPreviousPage", None, None), None)

\* dispatch_action(Exit)
DirectExit == DispatchAnswered(Action("Exit", None, None), None)

\* the calls that move between pages, over a store whose epics come and go
NavNext ==
    \/ DirectCreateEpic(MaxSmallId)
    \/ DirectDeleteEpic(MaxSmallId)
    \/ DirectNavigateToEpicDetail(MaxSmallId)
    \/ DirectNavigateToStoryDetail(MaxSmallId)
    \/ DirectNavigateToPreviousPage
    \/ DirectExit

NavSpec == Init /\ [][NavNext]_vars

\* dispatch_action(UpdateEpicName { epic_id }) with any epic id
DirectUpdateEpicName(cap) ==
    \E e \in ArgIds(cap), answer \in PromptNames :
        DispatchAnswered(Action("UpdateEpicName", Some(e), None), answer)

\* dispatch_action(UpdateEpicDescription { epic_id }) with any epic id
DirectUpdateEpicDescription(cap) ==
    \E e \in ArgIds(cap), answer \in PromptDescriptions :
        DispatchAnswered(Action("UpdateEpicDescription", Some(e), None), answer)

\* dispatch_action(UpdateEpicStatus { epic_id }) with any epic id; the prompt
\* returns a status or None
DirectUpdateEpicStatus(cap) ==
    \E e \in ArgIds(cap) :
        \E answer \in {None} \cup {Some(st) : st \in Status} :
            DispatchAnswered(Action("UpdateEpicStatus", Some(e), None), answer)

\* dispatch_action(UpdateStoryName { story_id }) with any story id
DirectUpdateStoryName(cap) ==
    \E s \in ArgIds(cap), answer \in PromptNames :
        DispatchAnswered(Action("UpdateStoryName", None, Some(s)), answer)

\* dispatch_action(UpdateStoryDescription { story_id }) with any story id
DirectUpdateStoryDescription(cap) ==
    \E s \in ArgIds(cap), answer \in PromptDescriptions :
        DispatchAnswered(Action("UpdateStoryDescription", None, Some(s)), answer)

\* every mutating Action, dispatched with any ids in any order
MutateNext ==
    \/ DirectCreateEpic(MaxSmallId)
    \/ DirectCreateStory(MaxSmallId)
    \/ DirectUpdateEpicName(MaxSmallId)
    \/ DirectUpdateEpicDescription(MaxSmallId)
    \/ DirectUpdateEpicStatus(MaxSmallId)
    \/ DirectUpdateStoryName(MaxSmallId)
    \/ DirectUpdateStoryDescription(MaxSmallId)
    \/ DirectUpdateStoryStatus(MaxSmallId)
    \/ DirectDeleteEpic(MaxSmallId)
    \/ DirectDeleteStory(MaxSmallId)

MutateSpec == Init /\ [][MutateNext]_vars

\* the turns of the loop of main that create, open, leave and delete epics and
\* stories, the create prompts returning one fixed epic or story: the pages are
\* browsed over more ids than under UiSpec
BrowseCreateEpic ==
    /\ NextId(state) <= MaxBrowseId
    /\ \E a \in Emitted(MaxBrowseId, "CreateEpic") : DispatchAnswered(a, Some(TestEpic))

BrowseCreateStory ==
    /\ NextId(state) <= MaxBrowseId
    /\ \E a \in Emitted(MaxBrowseId, "CreateStory") : DispatchAnswered(a, Some(TestStory))

BrowseNavigateToEpicDetail ==
    \E a \in Emitted(MaxBrowseId, "NavigateToEpicDetail") : DispatchAnswered(a, None)

BrowseNavigateToStoryDetail ==
    \E a \in Emitted(MaxBrowseId, "NavigateToStoryDetail") : DispatchAnswered(a, None)

BrowseNavigateToPreviousPage ==
    \E a \in Emitted(MaxBrowseId, "NavigateToPreviousPage") : DispatchAnswered(a, None)

BrowseDeleteEpic ==
    \E a \in Emitted(MaxBrowseId, "DeleteEpic"), answer \in BOOLEAN : DispatchAnswered(a, answer)

BrowseDeleteStory ==
    \E a \in Emitted(MaxBrowseId, "DeleteStory"), answer \in BOOLEAN : DispatchAnswered(a, answer)

BrowseExit ==
    \E a \in Emitted(MaxBrowseId, "Exit") : DispatchAnswered(a, None)

BrowseNext ==
    \/ BrowseCreateEpic
    \/ BrowseCreateStory
    \/ BrowseNavigateToEpicDetail
    \/ BrowseNavigateToStoryDetail
    \/ BrowseNavigateToPreviousPage
    \/ BrowseDeleteEpic
    \/ BrowseDeleteStory
    \/ BrowseExit

BrowseSpec == Init /\ [][BrowseNext]_vars

\* the turn in which "b" is typed on a page of the given kind
BackFrom(kind) ==
    /\ pages # <<>>
    /\ pages[Len(pages)].kind = kind
    /\ BrowseNavigateToPreviousPage

\* the user who keeps choosing back on the detail pages and quit on Home: a page
\* that is shown again and again is left by "b", or by "q" if it is Home
BrowseLiveSpec ==
    /\ BrowseSpec
    /\ SF_vars(BackFrom("StoryDetail"))
    /\ SF_vars(BackFrom("EpicDetail"))
    /\ SF_vars(BrowseExit)

\* the loop of main asking the current page for the action of a line (and, after
\* "u", of the line choosing the field): `val` records the line, `ret` the
\* Option<Action> returned
AskPage(cap) ==
    /\ pages # <<>>
    /\ \E input \in Lines(cap), field \in FieldLines :
           /\ input # <<"u">> => field = <<"x">>
           /\ last' = [op |-> "action_from", epic_id |-> None, story_id |-> None,
                       val |-> Some(input), res |-> "Ok",
                       ret |-> action_from(state, pages[Len(pages)], input, field)]
    /\ UNCHANGED <<state, pages, issued>>

\* pages asked for actions over any store contents and with any page on top
PageNext ==
    \/ DirectCreateEpic(MaxSmallId)
    \/ DirectCreateStory(MaxSmallId)
    \/ DirectNavigateToEpicDetail(MaxSmallId)
    \/ DirectNavigateToStoryDetail(MaxSmallId)
    \/ DirectNavigateToPreviousPage
    \/ AskPage(MaxSmallId)

PageSpec == Init /\ [][PageNext]_vars

(***************************************************************************)
(* JiraDatabase over JSONFileDatabase: under FileSpec `state` is the file  *)
(***************************************************************************)

\* no file at file_path; a file whose text is not JSON
NoFile == [kind |-> "NoFile"]

Malformed == [kind |-> "Malformed"]

\* JSON null and a JSON number
JNull == [t |-> "null"]

JNum(n) == [t |-> "num", v |-> n]

\* #[serde(rename = ...)] of the variants of Status
StatusName(st) ==
    CASE st = "Open" -> "open"
      [] st = "InProgress" -> "inProgress"
      [] st = "Resolved" -> "resolved"
      [] st = "Closed" -> "closed"

\* Serialize for Epic and Story: storyIds is the renamed story_ids
EpicJson(epic) ==
    [name |-> epic.name, description |-> epic.description,
     status |-> StatusName(epic.status), storyIds |-> epic.story_ids]

StoryJson(story) ==
    [name |-> story.name, description |-> story.description,
     status |-> StatusName(story.status)]

\* a u32 key of a JSON object as serde_json reads it: a decimal numeral without
\* sign or leading zeros that fits u32; Some(value), or None for Err
JsonKeyU32(k) ==
    IF \/ k = <<>>
       \/ \E i \in 1..Len(k) : ~IsDigit(k[i])
       \/ (Len(k) > 1 /\ Head(k) = "0")
       \/ Overflows(k)
    THEN None
    ELSE Some(DigitsValue(k, 0))

\* serde_json::to_string(state): lastItemId is null or a number, the keys of the
\* two maps are written as numerals
to_string(st) ==
    [kind |-> "Json",
     lastItemId |-> IF st.last_item_id = None THEN JNull ELSE JNum(st.last_item_id[1]),
     epics |-> [k \in {Numeral(i) : i \in DOMAIN st.epics} |->
                   EpicJson(st.epics[JsonKeyU32(k)[1]])],
     stories |-> [k \in {Numeral(i) : i \in DOMAIN st.stories} |->
                     StoryJson(st.stories[JsonKeyU32(k)[1]])]]

\* Deserialize for Epic and Story
EpicFromJson(j) ==
    [name |-> j.name, description |-> j.description,
     status |-> CHOOSE st \in Status : StatusName(st) = j.status, story_ids |-> j.storyIds]

StoryFromJson(j) ==
    [name |-> j.name, description |-> j.description,
     status |-> CHOOSE st \in Status : StatusName(st) = j.status]

\* whether serde_json::from_str::<DatabaseState> accepts the document: every key
\* is a u32 and every status is a known variant
Accepted(file) ==
    /\ file.kind = "Json"
    /\ \A k \in DOMAIN file.epics :
           /\ JsonKeyU32(k) # None
           /\ \E st \in Status : StatusName(st) = file.epics[k].status
    /\ \A k \in DOMAIN file.stories :
           /\ JsonKeyU32(k) # None
           /\ \E st \in Status : StatusName(st) = file.stories[k].status

\* serde_json::from_str of an accepted document
from_str(file) ==
    [last_item_id |-> IF file.lastItemId = JNull THEN None ELSE Some(file.lastItemId.v),
     epics |-> [i \in {JsonKeyU32(k)[1] : k \in DOMAIN file.epics} |->
                   EpicFromJson(file.epics[CHOOSE k \in DOMAIN file.epics :
                                               JsonKeyU32(k) = Some(i)])],
     stories |-> [i \in {JsonKeyU32(k)[1] : k \in DOMAIN file.stories} |->
                     StoryFromJson(file.stories[CHOOSE k \in DOMAIN file.stories :
                                                   JsonKeyU32(k) = Some(i)])]]

\* JSONFileDatabase::read: Err when there is no file or its text is not a
\* DatabaseState
JSONFileDatabase_read(file) ==
    IF Accepted(file)
    THEN [res |-> "Ok", ret |-> Some(from_str(file))]
    ELSE [res |-> "Err", ret |-> None]

\* write as it must not be: the epics of the old file that the new state does not
\* have are kept
JSONFileDatabase_write_merge(file, st) ==
    IF Accepted(file)
    THEN [to_string(st) EXCEPT
             !.epics = [k \in (DOMAIN file.epics) \cup (DOMAIN to_string(st).epics) |->
                           IF k \in DOMAIN to_string(st).epics
                           THEN to_string(st).epics[k]
                           ELSE file.epics[k]]]
    ELSE to_string(st)

\* JSONFileDatabase::write: fs::write creates the file or replaces all of its text
JSONFileDatabase_write(file, st) == to_string(st)

\* new as it must not be: the empty state is written whatever was read
JiraDatabase_new_reset(file) ==
    [state |-> EmptyState, file |-> JSONFileDatabase_write(file, EmptyState)]

\* JiraDatabase::new: what was read is written back, or the empty state is written
JiraDatabase_new(file) ==
    LET r == JSONFileDatabase_read(file)
    IN  IF r.res = "Ok"
        THEN [state |-> r.ret[1], file |-> JSONFileDatabase_write(file, r.ret[1])]
        ELSE [state |-> EmptyState, file |-> JSONFileDatabase_write(file, EmptyState)]

\* the state write_should_write_to_file writes
TestState ==
    [last_item_id |-> Some(1), epics |-> Insert(EmptyMap, 1, TestEpic),
     stories |-> Insert(EmptyMap, 0, TestStory)]

\* what is at file_path when the program starts
InitialFiles ==
    {NoFile, Malformed, to_string(EmptyState), to_string(TestState),
     [to_string(TestState) EXCEPT !.stories = [k \in DOMAIN @ |->
                                                  [@[k] EXCEPT !.status = "done"]]]}

FileInit ==
    /\ state \in InitialFiles
    /\ pages = <<Home>>
    /\ last = [op |-> "start", epic_id |-> None, story_id |-> None, val |-> None,
               res |-> "Ok", ret |-> None]
    /\ issued = <<>>

\* main calls JiraDatabase::new(file_path)
FileNew ==
    /\ last.op = "start"
    /\ state' = JiraDatabase_new(state).file
    /\ last' = [last EXCEPT !.op = "new", !.val = Some(JiraDatabase_new(state).state)]
    /\ UNCHANGED <<pages, issued>>

\* a JiraDatabase operation: self.read()?, the operation on the state read, and
\* self.db.write(&state)? when it got that far; `val` records the state written
FileCall(op, epic_id, story_id, r) ==
    /\ last.op # "start"
    /\ JSONFileDatabase_read(state).res = "Ok"
    /\ state' = IF r.res = "Ok" THEN JSONFileDatabase_write(state, r.state) ELSE state
    /\ last' = [op |-> op, epic_id |-> epic_id, story_id |-> story_id,
                val |-> IF r.res = "Ok" THEN Some(r.state) ELSE None,
                res |-> r.res, ret |-> None]
    /\ UNCHANGED <<pages, issued>>

\* the state JiraDatabase::read returns
Stored == JSONFileDatabase_read(state).ret[1]

FileCreateEpic(cap) ==
    /\ Accepted(state)
    /\ NextId(Stored) <= cap
    /\ FileCall("create_epic", None, None, create_epic(Stored, TestEpic))

FileCreateStory(cap) ==
    /\ Accepted(state)
    /\ NextId(Stored) <= cap
    /\ \E e \in ArgIds(cap) :
           FileCall("create_story", Some(e), None, create_story(Stored, TestStory, e))

FileUpdateEpicStatus(cap) ==
    /\ Accepted(state)
    /\ \E e \in ArgIds(cap), v \in Status :
           FileCall("update_epic_status", Some(e), None, update_epic_status(Stored, e, v))

FileUpdateStoryStatus(cap) ==
    /\ Accepted(state)
    /\ \E s \in ArgIds(cap), v \in Status :
           FileCall("update_story_status", None, Some(s), update_story_status(Stored, s, v))

FileDeleteEpic(cap) ==
    /\ Accepted(state)
    /\ \E e \in ArgIds(cap) : FileCall("delete_epic", Some(e), None, delete_epic(Stored, e))

FileDeleteStory(cap) ==
    /\ Accepted(state)
    /\ \E s \in ArgIds(cap), e \in ArgIds(cap) :
           FileCall("delete_story", Some(e), Some(s), delete_story(Stored, s, e))

\* JiraDatabase::read
FileRead ==
    /\ last.op # "start"
    /\ last' = [op |-> "read", epic_id |-> None, story_id |-> None, val |-> None,
                res |-> JSONFileDatabase_read(state).res,
                ret |-> JSONFileDatabase_read(state).ret]
    /\ UNCHANGED <<state, pages, issued>>

FileNext ==
    \/ FileNew
    \/ FileCreateEpic(MaxSmallId)
    \/ FileCreateStory(MaxSmallId)
    \/ FileUpdateEpicStatus(MaxSmallId)
    \/ FileUpdateStoryStatus(MaxSmallId)
    \/ FileDeleteEpic(MaxSmallId)
    \/ FileDeleteStory(MaxSmallId)
    \/ FileRead

FileSpec == FileInit /\ [][FileNext]_vars

(***************************************************************************)
(* The Navigator over a data file that the program did not write           *)
(***************************************************************************)

\* a state that deserializes although the epic lists an id, 2, that has no story
DanglingState ==
    [last_item_id |-> Some(3),
     epics |-> Insert(EmptyMap, 0, [TestEpic EXCEPT !.story_ids = <<1, 2, 3>>]),
     stories |-> Insert(Insert(EmptyMap, 1, TestStory), 3, TestStory)]

\* the files found at file_path
DataFiles == {to_string(EmptyState), to_string(DanglingState)}

\* main: JiraDatabase::new(file_path) reads the file, Navigator::new pushes Home
LoadedInit ==
    /\ state \in {JiraDatabase_new(f).state : f \in DataFiles}
    /\ pages = <<Home>>
    /\ last = [op |-> "new", epic_id |-> None, story_id |-> None, val |-> None,
               res |-> "Ok", ret |-> None]
    /\ issued = <<>>

\* the calls that run the rollup, with any ids
LoadedNext ==
    \/ DirectUpdateStoryStatus(MaxId)
    \/ DirectDeleteStory(MaxId)

LoadedSpec == LoadedInit /\ [][LoadedNext]_vars

(***************************************************************************)
(* Several instances of JiraDatabase on one file: under RaceSpec `state`   *)
(* is the file together with what each instance has read and not yet       *)
(* written back                                                            *)
(***************************************************************************)

Instances == 1..MaxInstances

\* create_epic as it must not be: the state written is made from the file as it is
\* at the write, as if the read and the write were one step
create_epic_from_current(current, read, epic) == create_epic(current, epic)

\* create_epic between its read and its write: the state it writes is made from
\* the state it read, whatever the file holds by now
create_epic_from_read(current, read, epic) == create_epic(read, epic)

\* create_story between its read and its write
create_story_from_read(current, read, story, epic_id) == create_story(read, story, epic_id)

\* the file after JiraDatabase::new over no file; no instance is inside a call
RaceInit ==
    /\ state = [file |-> EmptyState, held |-> [i \in Instances |-> None]]
    /\ pages = <<Home>>
    /\ last = [op |-> "new", epic_id |-> None, story_id |-> None, val |-> None,
               res |-> "Ok", ret |-> None]
    /\ issued = <<>>

\* the first step of a create: let mut state = self.read()?
RaceRead(i) ==
    /\ state.held[i] = None
    /\ NextId(state.file) <= MaxRollupId
    /\ Len(issued) < MaxCreates
    /\ state' = [state EXCEPT !.held[i] = Some(state.file)]
    /\ UNCHANGED <<pages, last, issued>>

\* the rest of create_epic: the change and self.db.write(&state)?; `val` records
\* the state the call had read
RaceCreateEpic(i) ==
    /\ state.held[i] # None
    /\ LET r == create_epic_from_read(state.file, state.held[i][1], TestEpic)
       IN  /\ state' = [file |-> r.state, held |-> [state.held EXCEPT ![i] = None]]
           /\ last' = [op |-> "create_epic", epic_id |-> None, story_id |-> None,
                       val |-> state.held[i], res |-> r.res, ret |-> r.ret]
           /\ issued' = Append(issued, r.ret[1])
    /\ UNCHANGED pages

\* the rest of create_story: the lookup of the epic, which returns early on an
\* error, the change and self.db.write(&state)?
RaceCreateStory(i) ==
    /\ state.held[i] # None
    /\ \E e \in ArgIds(MaxRollupId) :
           LET r == create_story_from_read(state.file, state.held[i][1], TestStory, e)
           IN  /\ state' = [file |-> IF r.res = "Ok" THEN r.state ELSE state.file,
                            held |-> [state.held EXCEPT ![i] = None]]
               /\ last' = [op |-> "create_story", epic_id |-> Some(e), story_id |-> None,
                           val |-> state.held[i], res |-> r.res, ret |-> r.ret]
               /\ issued' = IF r.res = "Ok" THEN Append(issued, r.ret[1]) ELSE issued
    /\ UNCHANGED pages

RaceNext ==
    \E i \in Instances :
        \/ RaceRead(i)
        \/ RaceCreateEpic(i)
        \/ RaceCreateStory(i)

RaceSpec == RaceInit /\ [][RaceNext]_vars

(***************************************************************************)
(* Properties of the Entity Store                                          *)
(***************************************************************************)

\* the keys of both mappings
Keys(st) == (DOMAIN st.epics) \cup (DOMAIN st.stories)

\* the set of the elements of a Vec
Elems(v) == {v[i] : i \in 1..Len(v)}

\* C1: the ids returned by the successful creates, in call order, are strictly
\* increasing (hence pairwise distinct), epics and stories alike, whatever deletes
\* happened in between: an id is never issued twice.
C1_IdsStrictlyIncreasing ==
    \A i, j \in 1..Len(issued) : i < j => issued[i] < issued[j]

\* C1 witness: a create succeeded after an earlier id's entity was deleted, with an
\* epic and a story both issued before.
C1_Witness ==
    /\ last.op \in {"create_epic", "create_story"}
    /\ last.res = "Ok"
    /\ Len(issued) >= 3
    /\ \E k \in Elems(issued) : k \notin Keys(state)
    /\ DOMAIN state.stories # {}

\* C2: every id in every epic's story-id list is a key of the story mapping.
C2_StoryIdsResolve ==
    \A e \in DOMAIN state.epics : Elems(state.epics[e].story_ids) \subseteq DOMAIN state.stories

\* C2 witness: a story was just deleted from an epic that still exists.
C2_Witness ==
    /\ last.op = "delete_story"
    /\ last.res = "Ok"
    /\ last.epic_id[1] \in DOMAIN state.epics

\* C3: a create_story call whose epic id is not a key of the epic mapping returns
\* NotFound and writes nothing: the persisted state, and with it the id the next
\* create returns, is what it was before the call.
C3_CreateStoryNotFound ==
    [][(last'.op = "create_story" /\ last'.epic_id[1] \notin DOMAIN state.epics)
         => /\ last'.res = "NotFound"
            /\ state' = state
            /\ issued' = issued
            /\ \A n \in Names, d \in NewDescriptions :
                   create_epic(state', NewEpic(n, d)).ret = create_epic(state, NewEpic(n, d)).ret]_vars

\* C3 witness: create_story failed on a store that holds an epic and has issued ids.
C3_Witness ==
    /\ last.op = "create_story"
    /\ last.res = "NotFound"
    /\ state.last_item_id # None
    /\ DOMAIN state.epics # {}

\* C4: a create_story call either fails and writes nothing, or returns a new id n
\* and the one state it writes has the story under n, n as the last element of the
\* parent's story-id list, and lastId = n.
C4_CreateStoryBothOrNeither ==
    [][(last'.op = "create_story")
         => \/ last'.res = "NotFound" /\ state' = state
            \/ /\ last'.res = "Ok"
               /\ LET n == last'.ret[1]
                      e == last'.epic_id[1]
                  IN  /\ n \notin Keys(state)
                      /\ ~Contains(issued, n)
                      /\ e \in DOMAIN state.epics
                      /\ DOMAIN state'.stories = (DOMAIN state.stories) \cup {n}
                      /\ state'.stories[n] = last'.val[1]
                      /\ state'.epics[e].story_ids = Append(state.epics[e].story_ids, n)
                      /\ state'.last_item_id = Some(n)]_vars

\* C4 witness: create_story succeeded on an epic that already had a story.
C4_Witness ==
    /\ last.op = "create_story"
    /\ last.res = "Ok"
    /\ Len(state.epics[last.epic_id[1]].story_ids) >= 2
    /\ state.stories[last.ret[1]] = last.val[1]

\* C5: create_epic never fails; it returns 0 when lastId is None and lastId + 1
\* otherwise, stores the epic under that id, sets lastId to it, and leaves every
\* other epic and every story unchanged.
C5_CreateEpic ==
    [][(last'.op = "create_epic")
         => /\ last'.res = "Ok"
            /\ LET id == last'.ret[1]
               IN  /\ id = (IF state.last_item_id = None THEN 0 ELSE state.last_item_id[1] + 1)
                   /\ DOMAIN state'.epics = (DOMAIN state.epics) \cup {id}
                   /\ state'.epics[id] = last'.val[1]
                   /\ \A k \in (DOMAIN state.epics) \ {id} : state'.epics[k] = state.epics[k]
                   /\ state'.stories = state.stories
                   /\ state'.last_item_id = Some(id)]_vars

\* C5 witness: create_epic succeeded on a store that already held another epic and
\* a story, and the epic given is stored under the id returned.
C5_Witness ==
    /\ last.op = "create_epic"
    /\ last.res = "Ok"
    /\ last.ret[1] > 0
    /\ state.epics[last.ret[1]] = last.val[1]
    /\ Cardinality(DOMAIN state.epics) >= 2
    /\ DOMAIN state.stories # {}

\* C6: if lastId is None both mappings are empty; if lastId is Some(n) then n was
\* issued by a create and every key of both mappings is <= n.
C6_LastItemId ==
    IF state.last_item_id = None
    THEN Keys(state) = {}
    ELSE /\ Contains(issued, state.last_item_id[1])
         /\ \A k \in Keys(state) : k <= state.last_item_id[1]

\* C6 witness: ids were issued and every entity was deleted again: lastId stays Some.
C6_Witness ==
    /\ state.last_item_id # None
    /\ Keys(state) = {}
    /\ last.op = "delete_epic"

\* C7: a delete_story call whose epic id is not an epic, or whose story id is not in
\* that epic's story-id list, returns NotFound and writes nothing.
C7_DeleteStoryNotFound ==
    [][(/\ last'.op = "delete_story"
        /\ \/ last'.epic_id[1] \notin DOMAIN state.epics
           \/ ~Contains(state.epics[last'.epic_id[1]].story_ids, last'.story_id[1]))
         => /\ last'.res = "NotFound"
            /\ state' = state]_vars

\* C7 witness: delete_story failed for a story that exists and is listed by another
\* epic than the one named.
C7_Witness ==
    /\ last.op = "delete_story"
    /\ last.res = "NotFound"
    /\ last.story_id[1] \in DOMAIN state.stories
    /\ last.epic_id[1] \in DOMAIN state.epics
    /\ \E e \in (DOMAIN state.epics) \ {last.epic_id[1]} :
           Contains(state.epics[e].story_ids, last.story_id[1])

\* C8: a successful delete_story removes the story from the story mapping and from
\* the named epic's list, keeps the order of the ids left in that list, and changes
\* nothing else; afterwards no epic lists the story.
C8_DeleteStory ==
    [][(last'.op = "delete_story" /\ last'.res = "Ok")
         => LET s == last'.story_id[1]
                e == last'.epic_id[1]
            IN  /\ e \in DOMAIN state.epics
                /\ Contains(state.epics[e].story_ids, s)
                /\ DOMAIN state'.stories = (DOMAIN state.stories) \ {s}
                /\ \A k \in DOMAIN state'.stories : state'.stories[k] = state.stories[k]
                /\ DOMAIN state'.epics = DOMAIN state.epics
                /\ state'.epics[e] =
                       [state.epics[e] EXCEPT !.story_ids = SelectSeq(@, LAMBDA x : x # s)]
                /\ \A k \in (DOMAIN state.epics) \ {e} : state'.epics[k] = state.epics[k]
                /\ state'.last_item_id = state.last_item_id
                /\ \A k \in DOMAIN state'.epics : ~Contains(state'.epics[k].story_ids, s)]_vars

\* C8 witness: the first of three stories of an epic was deleted; two are left.
C8_Witness ==
    /\ last.op = "delete_story"
    /\ last.res = "Ok"
    /\ Len(state.epics[last.epic_id[1]].story_ids) >= 2
    /\ last.story_id[1] < state.epics[last.epic_id[1]].story_ids[1]

UpdatedField(op) ==
    IF op \in {"update_epic_name", "update_story_name"} THEN "name"
    ELSE IF op \in {"update_epic_description", "update_story_description"} THEN "description"
    ELSE "status"

EpicUpdates == {"update_epic_name", "update_epic_description", "update_epic_status"}

StoryUpdates == {"update_story_name", "update_story_description", "update_story_status"}

\* C11: each of the three epic updates called with an id that is not a key of the
\* epic mapping, and each of the three story updates called with an id that is not
\* a key of the story mapping, returns NotFound and leaves the persisted state
\* unchanged.
C11_UpdateNotFound ==
    [][/\ (last'.op \in EpicUpdates /\ last'.epic_id[1] \notin DOMAIN state.epics)
            => (last'.res = "NotFound" /\ state' = state)
       /\ (last'.op \in StoryUpdates /\ last'.story_id[1] \notin DOMAIN state.stories)
            => (last'.res = "NotFound" /\ state' = state)]_vars

\* C11 witness: a story update was refused for an id that is a key of the epic
\* mapping but not of the story mapping, while a story exists.
C11_Witness ==
    /\ last.op \in StoryUpdates
    /\ last.res = "NotFound"
    /\ last.story_id[1] \in DOMAIN state.epics
    /\ last.story_id[1] \notin DOMAIN state.stories
    /\ DOMAIN state.stories # {}

\* C12: an update that returns Ok was called with the id of an existing entity of
\* its kind and replaces exactly the one field of that entity by the given value:
\* the entity's other fields (an epic's story-id list among them), every other
\* epic and story, the key sets and lastId are unchanged.
C12_UpdateOneField ==
    [][/\ (last'.op \in EpicUpdates /\ last'.res = "Ok")
            => LET id == last'.epic_id[1]
                   f  == UpdatedField(last'.op)
               IN  /\ id \in DOMAIN state.epics
                   /\ DOMAIN state'.epics = DOMAIN state.epics
                   /\ state'.epics[id][f] = last'.val[1]
                   /\ \A g \in (DOMAIN state.epics[id]) \ {f} :
                          state'.epics[id][g] = state.epics[id][g]
                   /\ DOMAIN state'.epics[id] = DOMAIN state.epics[id]
                   /\ \A k \in (DOMAIN state.epics) \ {id} : state'.epics[k] = state.epics[k]
                   /\ state'.stories = state.stories
                   /\ state'.last_item_id = state.last_item_id
       /\ (last'.op \in StoryUpdates /\ last'.res = "Ok")
            => LET id == last'.story_id[1]
                   f  == UpdatedField(last'.op)
               IN  /\ id \in DOMAIN state.stories
                   /\ DOMAIN state'.stories = DOMAIN state.stories
                   /\ state'.stories[id][f] = last'.val[1]
                   /\ \A g \in (DOMAIN state.stories[id]) \ {f} :
                          state'.stories[id][g] = state.stories[id][g]
                   /\ DOMAIN state'.stories[id] = DOMAIN state.stories[id]
                   /\ \A k \in (DOMAIN state.stories) \ {id} :
                          state'.stories[k] = state.stories[k]
                   /\ state'.epics = state.epics
                   /\ state'.last_item_id = state.last_item_id]_vars

\* C12 witness: the name of an epic that lists a story and is not Open was replaced.
C12_Witness ==
    /\ last.op = "update_epic_name"
    /\ last.res = "Ok"
    /\ state.epics[last.epic_id[1]].name = last.val[1]
    /\ state.epics[last.epic_id[1]].story_ids # <<>>
    /\ state.epics[last.epic_id[1]].status # "Open"

\* the epics whose story-id list holds a story id
Owners(st, story_id) == {e \in DOMAIN st.epics : Contains(st.epics[e].story_ids, story_id)}

\* C27: every story of the story mapping is listed by exactly one epic.
C27_StoryHasOneEpic ==
    \A s \in DOMAIN state.stories : Cardinality(Owners(state, s)) = 1

\* C28: every story id is listed by at most one epic, and at most once in that
\* epic's list.
C28_ListedOnce ==
    \A s \in 0..MaxId :
        /\ Cardinality(Owners(state, s)) <= 1
        /\ \A e \in DOMAIN state.epics :
               Cardinality({i \in 1..Len(state.epics[e].story_ids) :
                               state.epics[e].story_ids[i] = s}) <= 1

\* C28 witness: a story was created while another epic already listed a story.
C28_Witness ==
    /\ last.op = "create_story"
    /\ last.res = "Ok"
    /\ Cardinality({e \in DOMAIN state.epics : state.epics[e].story_ids # <<>>}) >= 2

(***************************************************************************)
(* Properties of the program as the user drives it                         *)
(***************************************************************************)

\* C10: when the user confirms DeleteEpic and the dispatch returns Ok, none of the
\* stories the deleted epic listed is left in the story mapping.
C10_DeleteEpicDeletesStories ==
    [][(last'.op = "DeleteEpic" /\ last'.res = "Ok" /\ last'.val = Some(TRUE))
         => \A s \in Elems(state.epics[last'.epic_id[1]].story_ids) :
                s \notin DOMAIN state'.stories]_vars

(***************************************************************************)
(* Properties of the Navigator                                             *)
(***************************************************************************)

\* C13: whenever the Status Rollup ran in a dispatch that returned Ok (after the
\* story write of UpdateStoryStatus, for the epic that lists the story; after the
\* delete of a confirmed DeleteStory, for the named epic), the epic's status is
\* given by the statuses S of the stories it now lists, whatever their number and
\* order: Open if S is empty, else Closed if all are Closed, else Resolved if all
\* are Resolved or Closed, else Open if all are Open, else InProgress.
C13_RollupPrecedence ==
    [][(\/ last'.op = "UpdateStoryStatus" /\ last'.res = "Ok" /\ last'.val # Some(None)
        \/ last'.op = "DeleteStory" /\ last'.res = "Ok" /\ last'.val = Some(TRUE))
         => LET targets == IF last'.op = "DeleteStory"
                           THEN {last'.epic_id[1]}
                           ELSE {e \in DOMAIN state.epics :
                                    Contains(state.epics[e].story_ids, last'.story_id[1])}
                S(e) == {state'.stories[s].status :
                            s \in Elems(state'.epics[e].story_ids) \cap DOMAIN state'.stories}
            IN  /\ targets # {}
                /\ \A e \in targets :
                       /\ e \in DOMAIN state'.epics
                       /\ state'.epics[e].status =
                              IF S(e) = {} THEN "Open"
                              ELSE IF S(e) \subseteq {"Closed"} THEN "Closed"
                              ELSE IF S(e) \subseteq {"Resolved", "Closed"} THEN "Resolved"
                              ELSE IF S(e) \subseteq {"Open"} THEN "Open"
                              ELSE "InProgress"]_vars

\* C13 witness: a story was set to Closed in an epic whose other story is Resolved;
\* the epic is Resolved.
C13_Witness ==
    /\ last.op = "UpdateStoryStatus"
    /\ last.res = "Ok"
    /\ last.val = Some(Some("Closed"))
    /\ \E e \in DOMAIN state.epics :
           /\ Len(state.epics[e].story_ids) = 2
           /\ Contains(state.epics[e].story_ids, last.story_id[1])
           /\ \E s \in Elems(state.epics[e].story_ids) : state.stories[s].status = "Resolved"
           /\ state.epics[e].status = "Resolved"

\* C29: the Status Rollup does not fail on listed ids that have no story: when the
\* write before it succeeds (the story of UpdateStoryStatus exists and an epic lists
\* it; the epic of a confirmed DeleteStory exists and lists the story), the dispatch
\* returns Ok and the epic's status is computed from the listed stories that exist,
\* Open if there is none.
C29_MissingStoriesSkipped ==
    [][(\/ /\ last'.op = "UpdateStoryStatus"
           /\ last'.val # Some(None)
           /\ last'.story_id[1] \in DOMAIN state.stories
           /\ Owners(state, last'.story_id[1]) # {}
        \/ /\ last'.op = "DeleteStory"
           /\ last'.val = Some(TRUE)
           /\ last'.epic_id[1] \in DOMAIN state.epics
           /\ Contains(state.epics[last'.epic_id[1]].story_ids, last'.story_id[1]))
         => LET targets == IF last'.op = "DeleteStory"
                           THEN {last'.epic_id[1]}
                           ELSE Owners(state, last'.story_id[1])
                Found(e) == {s \in Elems(state'.epics[e].story_ids) : s \in DOMAIN state'.stories}
                S(e) == {state'.stories[s].status : s \in Found(e)}
            IN  /\ last'.res = "Ok"
                /\ \A e \in targets :
                       /\ Found(e) = {} => state'.epics[e].status = "Open"
                       /\ Found(e) # {} =>
                              state'.epics[e].status =
                                  IF S(e) \subseteq {"Closed"} THEN "Closed"
                                  ELSE IF S(e) \subseteq {"Resolved", "Closed"} THEN "Resolved"
                                  ELSE IF S(e) \subseteq {"Open"} THEN "Open"
                                  ELSE "InProgress"]_vars

\* C29 witness: a story was set to Closed in an epic that lists an id without a
\* story; the dispatch returned Ok and the epic is Closed, as its two stories are.
C29_Witness ==
    /\ last.op = "UpdateStoryStatus"
    /\ last.res = "Ok"
    /\ last.val = Some(Some("Closed"))
    /\ \E e \in Owners(state, last.story_id[1]) :
           /\ \E s \in Elems(state.epics[e].story_ids) : s \notin DOMAIN state.stories
           /\ \E s \in Elems(state.epics[e].story_ids) :
                  s \in DOMAIN state.stories /\ s # last.story_id[1]
           /\ state.epics[e].status = "Closed"

\* C30: the Status Rollup changes at most the status of the one owning epic.  In a
\* dispatch that returned Ok, with `mid` the state that the story write of
\* UpdateStoryStatus, or the delete of a confirmed DeleteStory, leaves for the
\* rollup: the stories, lastId, the keys of
\* the epics and every epic's name, description and story-id list are those of
\* `mid`, at most one epic has another status than in `mid`, and it is the owning
\* epic; the stack is as the arm leaves it (kept by UpdateStoryStatus, popped once
\* by DeleteStory).
C30_RollupFrame ==
    [][(\/ last'.op = "UpdateStoryStatus" /\ last'.res = "Ok" /\ last'.val # Some(None)
        \/ last'.op = "DeleteStory" /\ last'.res = "Ok" /\ last'.val = Some(TRUE))
         => LET r == IF last'.op = "DeleteStory"
                     THEN delete_story(state, last'.story_id[1], last'.epic_id[1])
                     ELSE update_story_status(state, last'.story_id[1], last'.val[1][1])
                mid == r.state
                owners == IF last'.op = "DeleteStory"
                          THEN {last'.epic_id[1]}
                          ELSE Owners(mid, last'.story_id[1])
                changed == {k \in DOMAIN mid.epics : state'.epics[k].status # mid.epics[k].status}
            IN  /\ r.res = "Ok"
                /\ state'.stories = mid.stories
                /\ state'.last_item_id = mid.last_item_id
                /\ DOMAIN state'.epics = DOMAIN mid.epics
                /\ \A k \in DOMAIN mid.epics :
                       /\ state'.epics[k].name = mid.epics[k].name
                       /\ state'.epics[k].description = mid.epics[k].description
                       /\ state'.epics[k].story_ids = mid.epics[k].story_ids
                /\ Cardinality(changed) <= 1
                /\ changed \subseteq owners
                /\ pages' = IF last'.op = "DeleteStory"
                            THEN SubSeq(pages, 1, Len(pages) - 1)
                            ELSE pages]_vars

\* C30 witness: with two epics stored, a story was set to Closed; its epic is
\* Closed and the other epic is still Open.
C30_Witness ==
    /\ last.op = "UpdateStoryStatus"
    /\ last.res = "Ok"
    /\ last.val = Some(Some("Closed"))
    /\ \E e \in Owners(state, last.story_id[1]) :
           /\ state.epics[e].status = "Closed"
           /\ \E k \in DOMAIN state.epics : k # e /\ state.epics[k].status = "Open"

\* C31: the Status Rollup called with a story id fails with NotFound and writes
\* nothing when no epic lists the story, and otherwise returns Ok having written the
\* rollup to an epic that lists it and to no other; called with an epic id it fails
\* with NotFound and writes nothing when the epic does not exist, and otherwise
\* returns Ok.
C31_RollupOwner ==
    [][(last'.op = "auto_update_epic_status")
         => LET owners == IF last'.story_id # None
                          THEN Owners(state, last'.story_id[1])
                          ELSE {last'.epic_id[1]} \cap DOMAIN state.epics
                S(e) == {state.stories[s].status :
                            s \in Elems(state.epics[e].story_ids) \cap DOMAIN state.stories}
            IN  IF owners = {}
                THEN last'.res = "NotFound" /\ state' = state
                ELSE /\ last'.res = "Ok"
                     /\ DOMAIN state'.epics = DOMAIN state.epics
                     /\ \E e \in owners :
                            /\ state'.epics[e].status =
                                   IF S(e) = {} THEN "Open"
                                   ELSE IF S(e) \subseteq {"Closed"} THEN "Closed"
                                   ELSE IF S(e) \subseteq {"Resolved", "Closed"} THEN "Resolved"
                                   ELSE IF S(e) \subseteq {"Open"} THEN "Open"
                                   ELSE "InProgress"
                            /\ \A k \in DOMAIN state.epics \ {e} :
                                   state'.epics[k] = state.epics[k]]_vars

\* C31 witness: the rollup was called with the id of a story whose epic was deleted;
\* the story is still stored and the call returned NotFound.
C31_Witness ==
    /\ last.op = "auto_update_epic_status"
    /\ last.story_id # None
    /\ last.story_id[1] \in DOMAIN state.stories
    /\ last.res = "NotFound"

\* the status that the precedence of the Status Rollup gives to the stories an epic
\* lists now
Derived(st, e) ==
    LET S == {st.stories[s].status : s \in Elems(st.epics[e].story_ids) \cap DOMAIN st.stories}
    IN  IF S = {} THEN "Open"
        ELSE IF S \subseteq {"Closed"} THEN "Closed"
        ELSE IF S \subseteq {"Resolved", "Closed"} THEN "Resolved"
        ELSE IF S \subseteq {"Open"} THEN "Open"
        ELSE "InProgress"

\* C33 as claimed: while UpdateEpicStatus is never dispatched, the status of every
\* epic is the rollup of the stories it lists now.
C33_StatusIsRollup ==
    \A e \in DOMAIN state.epics : state.epics[e].status = Derived(state, e)

\* C33 amended: while UpdateEpicStatus is never dispatched, the status of every epic
\* is the rollup of the stories it lists now, except that an epic that is Closed or
\* Resolved keeps that status when CreateStory adds an Open story to it, the rollup
\* of its stories then being InProgress.
C33_StatusIsRollupUntilCreate ==
    \A e \in DOMAIN state.epics :
        \/ state.epics[e].status = Derived(state, e)
        \/ /\ state.epics[e].status \in {"Closed", "Resolved"}
           /\ Derived(state, e) = "InProgress"
           /\ \E s \in Elems(state.epics[e].story_ids) : state.stories[s].status = "Open"

\* C33 witness: CreateStory added an Open story to an epic that is Closed; the epic
\* is still Closed.
C33_Witness ==
    /\ last.op = "CreateStory"
    /\ last.res = "Ok"
    /\ state.epics[last.epic_id[1]].status = "Closed"
    /\ Len(state.epics[last.epic_id[1]].story_ids) = 2

\* C14: a dispatch of UpdateStoryStatus in which the prompt returned Some(st) and
\* which returned Ok was for an existing story; it sets that story's status to st
\* and the status of the one epic listing the story to the rollup of that epic's
\* stories as they are after the write, and changes nothing else.  When the story
\* does not exist the write fails and no epic is touched.
C14_UpdateStoryStatus ==
    [][/\ (last'.op = "UpdateStoryStatus" /\ last'.res = "Ok" /\ last'.val # Some(None))
            => LET s  == last'.story_id[1]
                   st == last'.val[1][1]
               IN  /\ s \in DOMAIN state.stories
                   /\ state'.stories = [state.stories EXCEPT ![s].status = st]
                   /\ \E e \in DOMAIN state.epics :
                          /\ Contains(state.epics[e].story_ids, s)
                          /\ state'.epics =
                                 [state.epics EXCEPT
                                     ![e].status = Rollup(ChildStatuses(state', e))]
                   /\ state'.last_item_id = state.last_item_id
                   /\ pages' = pages
       /\ (last'.op = "UpdateStoryStatus" /\ last'.story_id[1] \notin DOMAIN state.stories)
            => (state' = state /\ pages' = pages)]_vars

\* C14 witness: the second story of an epic went from Open to InProgress while the
\* first is Closed; the epic is InProgress.
C14_Witness ==
    /\ last.op = "UpdateStoryStatus"
    /\ last.res = "Ok"
    /\ last.val = Some(Some("InProgress"))
    /\ \E e \in DOMAIN state.epics :
           /\ Len(state.epics[e].story_ids) = 2
           /\ state.epics[e].story_ids[2] = last.story_id[1]
           /\ state.stories[state.epics[e].story_ids[1]].status = "Closed"
           /\ state.stories[last.story_id[1]].status = "InProgress"
           /\ state.epics[e].status = "InProgress"

C16_DeleteEpicPop ==
    [][(last'.op = "DeleteEpic" /\ last'.val # Some(FALSE))
         => LET e == last'.epic_id[1]
            IN  IF e \in DOMAIN state.epics
                THEN /\ last'.res = "Ok"
                     /\ DOMAIN state'.epics = (DOMAIN state.epics) \ {e}
                     /\ IF pages = <<>>
                        THEN pages' = <<>>
                        ELSE Append(pages', pages[Len(pages)]) = pages
                ELSE /\ last'.res = "NotFound"
                     /\ state' = state
                     /\ pages' = pages]_vars

\* C16 witness: an epic was deleted while its page was on top of Home; Home is
\* the only page left.
C16_Witness ==
    /\ last.op = "DeleteEpic"
    /\ last.res = "Ok"
    /\ last.val = Some(TRUE)
    /\ last.epic_id[1] \notin DOMAIN state.epics
    /\ pages = <<Home>>

\* C17: a new Navigator holds the one page Home.  NavigateToEpicDetail{e} and
\* NavigateToStoryDetail{s, e} return Ok and put EpicDetail(e) (StoryDetail(s, e))
\* on top of the stack as it was, and a NavigateToPreviousPage that follows one of
\* them gives back the stack the push started from.
C17_PushThenPop ==
    /\ pages = <<Home>>
    /\ [][/\ (last'.op = "NavigateToEpicDetail")
               => (/\ last'.res = "Ok"
                   /\ pages' = pages \o <<EpicDetail(last'.epic_id[1])>>
                   /\ Len(pages') = Len(pages) + 1)
          /\ (last'.op = "NavigateToStoryDetail")
               => (/\ last'.res = "Ok"
                   /\ pages' = pages \o <<StoryDetail(last'.story_id[1], last'.epic_id[1])>>
                   /\ Len(pages') = Len(pages) + 1)
          /\ (/\ last.op \in {"NavigateToEpicDetail", "NavigateToStoryDetail"}
              /\ last'.op = "NavigateToPreviousPage")
               => (/\ last'.res = "Ok"
                   /\ pages # <<>>
                   /\ pages' \o <<pages[Len(pages)]>> = pages)]_vars

\* C17 witness: after Home -> EpicDetail(0) -> NavigateToPreviousPage the stack is
\* Home again.
C17_Witness ==
    /\ last.op = "NavigateToPreviousPage"
    /\ last.res = "Ok"
    /\ pages = <<Home>>

\* C18: NavigateToPreviousPage dispatched while the stack holds only Home leaves
\* the stack holding only Home.
C18_PreviousPageKeepsHome ==
    [][(last'.op = "NavigateToPreviousPage" /\ pages = <<Home>>) => pages' = <<Home>>]_vars

\* C19: Exit returns Ok, leaves the stack empty whatever its depth and leaves the
\* persisted state as it was; on an empty stack current_page is None and the loop
\* of main takes no further turn.
C19_Exit ==
    /\ [][(last'.op = "Exit")
             => (last'.res = "Ok" /\ pages' = <<>> /\ state' = state)]_vars
    /\ [](pages = <<>> => (current_page(pages) = None /\ ~ENABLED UiNext))

\* C19 witness: Exit was dispatched over a store that holds an epic; no page is left.
C19_Witness ==
    /\ last.op = "Exit"
    /\ last.res = "Ok"
    /\ pages = <<>>
    /\ DOMAIN state.epics # {}

\* C20: NavigateToEpicDetail, NavigateToStoryDetail and NavigateToPreviousPage
\* return Ok and leave the persisted state as it was, whether or not the ids they
\* carry are keys of the store: the first two push the page built from the ids,
\* the third pops the top page.
C20_NavigateNoValidation ==
    [][(last'.op \in {"NavigateToEpicDetail", "NavigateToStoryDetail",
                       "NavigateToPreviousPage"})
         => /\ last'.res = "Ok"
            /\ state' = state
            /\ IF last'.op = "NavigateToPreviousPage"
               THEN Len(pages') = IF pages = <<>> THEN 0 ELSE Len(pages) - 1
               ELSE /\ Len(pages') = Len(pages) + 1
                    /\ pages'[Len(pages')].epic_id = last'.epic_id
                    /\ pages'[Len(pages')].story_id = last'.story_id]_vars

\* C20 witness: the page of an epic that does not exist was pushed on Home.
C20_Witness ==
    /\ last.op = "NavigateToEpicDetail"
    /\ last.res = "Ok"
    /\ last.epic_id[1] \notin DOMAIN state.epics
    /\ pages = <<Home, EpicDetail(last.epic_id[1])>>

C22_ErrorsPropagate ==
    [][(/\ last'.op \in {"CreateEpic", "CreateStory", "UpdateEpicName",
                          "UpdateEpicDescription", "UpdateEpicStatus", "UpdateStoryName",
                          "UpdateStoryDescription", "UpdateStoryStatus", "DeleteEpic",
                          "DeleteStory"}
        /\ ~(last'.op \in {"DeleteEpic", "DeleteStory"} /\ last'.val = Some(FALSE))
        /\ ~(last'.op \in {"UpdateEpicStatus", "UpdateStoryStatus"}
               /\ last'.val = Some(None)))
         => LET op == last'.op
                NoEpic == /\ op \in {"CreateStory", "UpdateEpicName", "UpdateEpicDescription",
                                      "UpdateEpicStatus", "DeleteEpic", "DeleteStory"}
                          /\ last'.epic_id[1] \notin DOMAIN state.epics
                NoStory == /\ op \in {"UpdateStoryName", "UpdateStoryDescription",
                                       "UpdateStoryStatus"}
                           /\ last'.story_id[1] \notin DOMAIN state.stories
                NotListed == /\ op = "DeleteStory"
                             /\ last'.epic_id[1] \in DOMAIN state.epics
                             /\ ~Contains(state.epics[last'.epic_id[1]].story_ids,
                                          last'.story_id[1])
                StoreFails == NoEpic \/ NoStory \/ NotListed
                RollupFails == /\ op = "UpdateStoryStatus"
                               /\ last'.story_id[1] \in DOMAIN state.stories
                               /\ \A e \in DOMAIN state.epics :
                                      ~Contains(state.epics[e].story_ids, last'.story_id[1])
            IN  /\ StoreFails => (last'.res = "NotFound" /\ state' = state /\ pages' = pages)
                /\ RollupFails => (last'.res = "NotFound" /\ pages' = pages)
                /\ (last'.res # "Ok") => (StoreFails \/ RollupFails)
                /\ (op \in {"DeleteEpic", "DeleteStory"} /\ last'.res # "Ok")
                       => pages' = pages]_vars

\* C22 witness: a confirmed DeleteStory named an existing story and an id that is
\* not an epic; it failed, the story is still there and Home is still on the stack.
C22_Witness ==
    /\ last.op = "DeleteStory"
    /\ last.res = "NotFound"
    /\ last.story_id[1] \in DOMAIN state.stories
    /\ last.epic_id[1] \notin DOMAIN state.epics
    /\ pages = <<Home>>

\* C32: a dispatch that returns an error leaves the persisted state and the page
\* stack as they were before it.
C32_ErrorChangesNothing ==
    [][(last'.res # "Ok") => (state' = state /\ pages' = pages)]_vars

(***************************************************************************)
(* Properties of the JSON file storage                                     *)
(***************************************************************************)

\* C23: once a state s has been written, whatever the file held before, a read
\* returns Ok with a state equal to s
C23_WriteThenRead ==
    last.val # None => JSONFileDatabase_read(state) = [res |-> "Ok", ret |-> last.val]

\* an epic was deleted: the file held an epic that the state written does not
\* have, and a read returns the state written
C23_Witness ==
    /\ last.op = "delete_epic"
    /\ last.res = "Ok"
    /\ last.epic_id[1] \notin DOMAIN last.val[1].epics
    /\ JSONFileDatabase_read(state).ret = last.val

\* C24: JiraDatabase::new over a missing file leaves the empty state to be read,
\* and over a file holding a well-formed state s leaves s to be read
C24_NewPersists ==
    [][(last.op = "start" /\ last'.op = "new") =>
          /\ state = NoFile =>
                 JSONFileDatabase_read(state') = [res |-> "Ok", ret |-> Some(EmptyState)]
          /\ Accepted(state) => JSONFileDatabase_read(state') = JSONFileDatabase_read(state)]_vars

\* new has run over the file that held the state of write_should_write_to_file
C24_Witness ==
    /\ last.op = "new"
    /\ JSONFileDatabase_read(state).ret = Some(TestState)

\* C39: JiraDatabase::new leaves a file that is there but is not a well-formed
\* state as it is, and leaves the empty state in the file only when there was no
\* file (or when the file held the empty state already).
C39_NewKeepsUnreadableFile ==
    [][(last.op = "start" /\ last'.op = "new") =>
          /\ (state # NoFile /\ ~Accepted(state)) => state' = state
          /\ (JSONFileDatabase_read(state').ret = Some(EmptyState)) =>
                 \/ state = NoFile
                 \/ JSONFileDatabase_read(state).ret = Some(EmptyState)]_vars

(***************************************************************************)
(* Properties of instances that share the file                             *)
(***************************************************************************)

\* C40: a create whose write follows its own read with no other write in between
\* (with one instance, every create) loses nothing: every entity stored before is
\* stored after it and its id is the id of no entity stored before.  A create
\* whose write comes after another instance's write to the file it had read
\* overwrites that write: fewer entities are stored than creates have returned Ok.
C40_LostUpdate ==
    [][(issued' # issued /\ last'.res = "Ok")
         => LET read == last'.val[1]
                id == last'.ret[1]
            IN  /\ (read = state.file) =>
                       /\ Keys(state.file) \subseteq Keys(state'.file)
                       /\ DOMAIN state.file.stories \subseteq DOMAIN state'.file.stories
                       /\ id \notin Keys(state.file)
                /\ (read # state.file) =>
                       Cardinality(Keys(state'.file)) < Len(issued')]_vars

\* C40 witness: two create_epic calls read the empty file before either wrote;
\* both returned id 0 and the file holds one epic.
C40_Witness ==
    /\ last.op = "create_epic"
    /\ issued = <<0, 0>>
    /\ Keys(state.file) = {0}
    /\ \A i \in Instances : state.held[i] = None

(***************************************************************************)
(* Properties of the pages and the Navigator in the loop of main           *)
(***************************************************************************)

\* C34: a StoryDetail(s, e) frame is pushed only while epic e lists s, and so a
\* DeleteStory that the user confirms never fails.
C34_StoryFrameOwned ==
    [][/\ (last'.op = "NavigateToStoryDetail") =>
              /\ last'.epic_id[1] \in DOMAIN state.epics
              /\ Contains(state.epics[last'.epic_id[1]].story_ids, last'.story_id[1])
       /\ (last'.op = "DeleteStory") => last'.res = "Ok"]_vars

\* C35: the page stack is empty, or Home alone, or Home under EpicDetail(e), or
\* Home under EpicDetail(e) under StoryDetail(s, e) with the same e: Home is at the
\* bottom of a stack that is not empty and no stack is deeper than 3.
C35_StackShape ==
    \/ pages = <<>>
    \/ pages = <<Home>>
    \/ /\ Len(pages) = 2
       /\ pages[1] = Home
       /\ pages[2].kind = "EpicDetail"
    \/ /\ Len(pages) = 3
       /\ pages[1] = Home
       /\ pages[2].kind = "EpicDetail"
       /\ pages[3].kind = "StoryDetail"
       /\ pages[3].epic_id = pages[2].epic_id

\* C35 witness: a story page was opened from an epic page.
C35_Witness ==
    /\ last.op = "NavigateToStoryDetail"
    /\ Len(pages) = 3
    /\ pages[3] = StoryDetail(last.story_id[1], pages[2].epic_id[1])

\* C36: every page on the stack is a page of entities that exist: the epic of an
\* EpicDetail page, and the story and the epic of a StoryDetail page, are stored;
\* and every story that the epic of an EpicDetail page lists is stored, so that
\* draw finds all it looks up.
C36_FramesExist ==
    \A i \in 1..Len(pages) :
        /\ pages[i].kind = "EpicDetail" =>
               /\ pages[i].epic_id[1] \in DOMAIN state.epics
               /\ Elems(state.epics[pages[i].epic_id[1]].story_ids) \subseteq DOMAIN state.stories
        /\ pages[i].kind = "StoryDetail" =>
               /\ pages[i].epic_id[1] \in DOMAIN state.epics
               /\ pages[i].story_id[1] \in DOMAIN state.stories

\* C36 witness: a story was deleted from its page; the page left on top is the page
\* of its epic, which is stored.
C36_Witness ==
    /\ last.op = "DeleteStory"
    /\ last.res = "Ok"
    /\ last.val = Some(TRUE)
    /\ pages = <<Home, EpicDetail(last.epic_id[1])>>
    /\ last.story_id[1] \notin DOMAIN state.stories
    /\ last.epic_id[1] \in DOMAIN state.epics

\* C37: the stack becomes empty only in a turn that dispatches Exit, Exit is
\* dispatched only while Home is on top, and no NavigateToPreviousPage, DeleteEpic
\* or DeleteStory leaves the stack empty.
C37_OnlyExitEmpties ==
    [][/\ (pages # <<>> /\ pages' = <<>>) => last'.op = "Exit"
       /\ (last'.op = "Exit") => (pages # <<>> /\ pages[Len(pages)] = Home)
       /\ (last'.op \in {"NavigateToPreviousPage", "DeleteEpic", "DeleteStory"})
              => pages' # <<>>]_vars

\* C37 witness: after an epic was created and deleted from its page, which popped
\* the page, Exit emptied the stack.
C37_Witness ==
    /\ last.op = "Exit"
    /\ pages = <<>>
    /\ issued # <<>>
    /\ DOMAIN state.epics = {}

\* C38: with a user who keeps choosing back on the detail pages and quit on Home,
\* a stack that is not empty eventually becomes empty, which stops the loop; and a
\* dispatch that returns an error leaves the stack as it was, not empty and with
\* Home at its bottom.
C38_EventuallyStops ==
    /\ (pages # <<>>) ~> (pages = <<>>)
    /\ [][(last'.res # "Ok") => (pages' = pages /\ pages' # <<>> /\ pages'[1] = Home)]_vars

\* C38 witness: a dispatch from a story page returned an error; the page is still on
\* top of the stack.
C38_Witness ==
    /\ last.res # "Ok"
    /\ Len(pages) = 3
    /\ pages[Len(pages)].kind = "StoryDetail"

(***************************************************************************)
(* Properties of the pages                                                 *)
(***************************************************************************)

\* C25: HomePage::action_from maps "q" to Exit, "n" to CreateEpic, a line that
\* parses as an id to NavigateToEpicDetail with that id only if the id is a key of
\* the epics, and every other line to Ok(None); it never returns
\* NavigateToPreviousPage
C25_HomeActions ==
    (last.op = "action_from" /\ pages[Len(pages)] = Home) =>
        LET input == last.val[1]
            id == ParseU32(input)
        IN  /\ last.ret # Some(Action("NavigateToPreviousPage", None, None))
            /\ last.ret =
                   IF input = <<"q">> THEN Some(Action("Exit", None, None))
                   ELSE IF input = <<"n">> THEN Some(Action("CreateEpic", None, None))
                   ELSE IF id # None /\ id[1] \in DOMAIN state.epics
                   THEN Some(Action("NavigateToEpicDetail", id, None))
                   ELSE None

\* Home was asked about a line that parses as an id that no epic has, while there
\* is an epic: it returned no action
C25_Witness ==
    /\ last.op = "action_from"
    /\ pages[Len(pages)] = Home
    /\ ParseU32(last.val[1]) # None
    /\ ParseU32(last.val[1])[1] \notin DOMAIN state.epics
    /\ DOMAIN state.epics # {}
    /\ last.ret = None

====
